---- MODULE Spec2Model ----
(***************************************************************************)
(* Model of the AI refinement pipeline of cc-wf-studio: the Claude Code    *)
(* CLI process runner (executeClaudeCodeCLI, cancelRefinement,             *)
(* cancelGeneration) with its live registry activeProcesses, and the       *)
(* refinement orchestrators refineWorkflow / refineSubAgentFlow built on   *)
(* top of it.                                                              *)
(***************************************************************************)
EXTENDS Integers, Sequences, FiniteSets, TLC

\* ------------------------------------------------------------------------
\* Bounds of the model
\* ------------------------------------------------------------------------
\* Number of cancel calls (cancelRefinement or cancelGeneration) in one run.
MaxCancels == 2

\* Number of kill() calls that the operating system rejects in one run.
MaxKillFailures == 1

\* Request ids; one refinement attempt is made per id (the chat panel draws
\* a fresh id per attempt).
RequestIds == {"r1", "r2"}

\* ------------------------------------------------------------------------
\* Small helpers
\* ------------------------------------------------------------------------
\* An optional value is a set with at most one element: {} is undefined.
None == {}

Some(v) == {v}

The(s) == CHOOSE v \in s : TRUE

\* ------------------------------------------------------------------------
\* Text.  A text is a sequence of tokens:
\*   " "  a blank            "n"  a line break
\*   "t"  a word of prose that matches no clarification pattern
\*   "c"  a phrase that matches a clarification pattern
\*   "C"  such a phrase in capital letters
\*   "c1", "c2"  the two halves of such a phrase: they match when the one
\*        follows the other directly
\*   "["  the fence opener ```json       "]"  the fence closer ```
\*   "J.." a complete JSON document (see JsonDoc); the text of "Jwc" has a
\*        phrase that matches a clarification pattern in one of its strings
\*   "Jp", "]", "Js"  one JSON document with ``` in one of its strings: the
\*        part before the three backticks, the backticks, and the part after
\*        ("Jsc" for "Js": the part after has a phrase that matches a
\*        clarification pattern)
\* ------------------------------------------------------------------------
IsSpace(tok) == tok \in {" ", "n"}

RECURSIVE TrimStart(_)
TrimStart(s) ==
  IF s = <<>> THEN <<>>
  ELSE IF IsSpace(Head(s)) THEN TrimStart(Tail(s)) ELSE s

RECURSIVE TrimEnd(_)
TrimEnd(s) ==
  IF s = <<>> THEN <<>>
  ELSE IF IsSpace(s[Len(s)]) THEN TrimEnd(SubSeq(s, 1, Len(s) - 1)) ELSE s

\* String.prototype.trim
Trim(s) == TrimEnd(TrimStart(s))

\* ------------------------------------------------------------------------
\* JSON documents.  A token "J.." stands for the text of one JSON document;
\* JsonParse gives the value JSON.parse returns for it.  "X" is a brace
\* delimited text that is not valid JSON.
\* ------------------------------------------------------------------------
SUBAGENTFLOW_PROHIBITED_NODE_TYPES == {"subAgent", "subAgentFlow", "askUserQuestion"}

SUBAGENTFLOW_MAX_NODES == 30

NoData == [name |-> "", scope |-> "", skillPath |-> "", validationStatus |-> ""]

Node(id, type) == [id |-> id, type |-> type, data |-> NoData]

SkillNode(id, name, scope) ==
  [id |-> id, type |-> "skill",
   data |-> [name |-> name, scope |-> scope, skillPath |-> "", validationStatus |-> "valid"]]

SmallFlow == <<Node("n1", "start"), Node("n2", "prompt"), Node("n3", "end")>>

SkillFlow == <<Node("n1", "start"), SkillNode("n2", "s1", "project"), Node("n3", "end")>>

ProhibitedFlow ==
  <<Node("n1", "start"), Node("n2", "subAgent"), Node("n3", "askUserQuestion"), Node("n4", "end")>>

BigFlow == [i \in 1..(SUBAGENTFLOW_MAX_NODES + 1) |-> Node("n" \o ToString(i), "prompt")]

\* A flow of exactly SUBAGENTFLOW_MAX_NODES nodes.
FullFlow == [i \in 1..SUBAGENTFLOW_MAX_NODES |-> Node("n" \o ToString(i), "prompt")]

\* More than SUBAGENTFLOW_MAX_NODES nodes, two of them of a prohibited type.
BigProhibitedFlow ==
  [i \in 1..(SUBAGENTFLOW_MAX_NODES + 1) |->
     Node("n" \o ToString(i),
          IF i = 2 THEN "subAgentFlow" ELSE IF i = SUBAGENTFLOW_MAX_NODES + 1 THEN "subAgent"
          ELSE "prompt")]

\* The element null of a JSON array of nodes: reading its type or data throws.
NullNode == [id |-> "", type |-> "null", data |-> NoData]

NullFlow == <<Node("n1", "start"), NullNode>>

HasNullNode(items) == \E i \in 1..Len(items) : items[i] = NullNode

\* A parsed value: truthy as JavaScript sees it; id, nodes and connections are
\* the top-level fields of an object (undefined when absent).
JsonValue(truthy, id, nodes, connections) ==
  [truthy |-> truthy, id |-> id, nodes |-> nodes, connections |-> connections]

ArrayOf(items) == Some([isArray |-> TRUE, items |-> items])

NotAnArray == Some([isArray |-> FALSE, items |-> <<>>])

JsonDocs ==
  {"Jwf", "Jsk", "Jin", "Jpro", "Jbig", "Jnoc", "Jna", "Jnull", "Jnum",
   "Jfull", "Jbigpro", "Jnul", "Jnon", "Jwc"}

\* Texts that start with "{" and end with "}".
IsBraced(tok) == tok \in (JsonDocs \ {"Jnull", "Jnum"}) \cup {"X"}

\* Texts that start with "{"; texts that end with "}".
StartsWithBrace(tok) == IsBraced(tok) \/ tok = "Jp"

EndsWithBrace(tok) == IsBraced(tok) \/ tok \in {"Js", "Jsc"}

\* The JSON documents with three backticks in one of their strings.
FencedInside == <<"Jp", "]", "Js">>

FencedInsideWithPhrase == <<"Jp", "]", "Jsc">>

JsonParse(tok) ==
  CASE tok = "Jwf"   -> JsonValue(TRUE, Some("wf1"), ArrayOf(SmallFlow), Some("conns"))
    [] tok = "Jsk"   -> JsonValue(TRUE, Some("wf1"), ArrayOf(SkillFlow), Some("conns"))
    [] tok = "Jin"   -> JsonValue(TRUE, None, ArrayOf(SmallFlow), Some("conns"))
    [] tok = "Jpro"  -> JsonValue(TRUE, None, ArrayOf(ProhibitedFlow), Some("conns"))
    [] tok = "Jbig"  -> JsonValue(TRUE, None, ArrayOf(BigFlow), Some("conns"))
    [] tok = "Jnoc"  -> JsonValue(TRUE, Some("wf1"), ArrayOf(SmallFlow), None)
    [] tok = "Jna"   -> JsonValue(TRUE, Some("wf1"), NotAnArray, Some("conns"))
    [] tok = "Jnum"  -> JsonValue(TRUE, None, None, None)
    [] tok = "Jfull" -> JsonValue(TRUE, None, ArrayOf(FullFlow), Some("conns"))
    [] tok = "Jbigpro" -> JsonValue(TRUE, None, ArrayOf(BigProhibitedFlow), Some("conns"))
    [] tok = "Jnul"  -> JsonValue(TRUE, Some("wf1"), ArrayOf(NullFlow), Some("conns"))
    [] tok = "Jnon"  -> JsonValue(TRUE, Some("wf1"), None, Some("conns"))
    [] tok = "Jwc"   -> JsonValue(TRUE, Some("wf2"), ArrayOf(SmallFlow), Some("conns"))
    [] OTHER         -> JsonValue(FALSE, None, None, None)   \* null

\* JSON.parse of a text: the value, or None when it throws.
JsonParseText(text) ==
  IF Len(text) = 1 /\ text[1] \in JsonDocs THEN Some(JsonParse(text[1]))
  ELSE IF text = FencedInside
  THEN Some(JsonValue(TRUE, Some("wf3"), ArrayOf(SmallFlow), Some("conns")))
  ELSE IF text = FencedInsideWithPhrase
  THEN Some(JsonValue(TRUE, Some("wf4"), ArrayOf(SmallFlow), Some("conns")))
  ELSE None

IsFence(tok) == tok \in {"[", "]"}

HasFence(s) == \E i \in 1..Len(s) : IsFence(s[i])

FirstFence(s) == CHOOSE i \in 1..Len(s) : IsFence(s[i]) /\ \A j \in 1..(i - 1) : ~IsFence(s[j])

\* What is left of the text after the closing ``` of a fenced block whose
\* opener has just been read: the closer may be the first three characters of
\* another ```json, whose letters "json" then remain as prose.
AfterFence(s) ==
  LET j == FirstFence(s)
      rest == SubSeq(s, j + 1, Len(s))
  IN  IF s[j] = "[" THEN <<"t">> \o rest ELSE rest

\* output.replace(/```json[\s\S]*?```/g, '')
RECURSIVE RemoveFences(_)
RemoveFences(s) ==
  IF s = <<>> THEN <<>>
  ELSE IF Head(s) = "[" /\ HasFence(Tail(s))
       THEN RemoveFences(AfterFence(Tail(s)))
       ELSE <<Head(s)>> \o RemoveFences(Tail(s))

\* Some clarification pattern (all have the flag i) matches inside the token.
MatchesPattern(tok) == tok \in {"c", "C", "Jwc", "Jsc"}

\* clarificationPatterns.some((pattern) => pattern.test(text))
SomePatternMatches(text) ==
  \E i \in 1..Len(text) :
    \/ MatchesPattern(text[i])
    \/ text[i] = "c1" /\ i < Len(text) /\ text[i + 1] = "c2"

\* isClarificationMessage that tests the patterns on the output as it is.
isClarificationMessageOnWholeOutput(output) == SomePatternMatches(output)

\* isClarificationMessage
isClarificationMessage(output) ==
  LET textWithoutCodeBlocks == RemoveFences(output)
  IN  SomePatternMatches(textWithoutCodeBlocks)

\* cleanedOutput.replace(/\n\s*\{[\s\S]*\}\s*$/g, '')
RemoveTrailingJson(s) ==
  LET t == TrimEnd(s)
      starts == {i \in 1..Len(s) :
                   /\ s[i] = "n"
                   /\ \E j \in (i + 1)..Len(t) :
                        /\ \A k \in (i + 1)..(j - 1) : IsSpace(s[k])
                        /\ StartsWithBrace(s[j])
                   /\ EndsWithBrace(t[Len(t)])}
  IN  IF starts = {} THEN s
      ELSE SubSeq(s, 1, (CHOOSE i \in starts : \A k \in starts : i <= k) - 1)

\* extractClarificationMessage
extractClarificationMessage(output) == Trim(RemoveTrailingJson(RemoveFences(output)))

\* The text captured by /```json\s*([\s\S]*?)\s*```/, or the whole output.
RECURSIVE JsonString(_, _)
JsonString(s, whole) ==
  IF s = <<>> THEN whole
  ELSE IF Head(s) = "[" /\ HasFence(Tail(s))
       THEN SubSeq(Tail(s), 1, FirstFence(Tail(s)) - 1)
       ELSE JsonString(Tail(s), whole)

\* parseClaudeCodeOutput: the parsed value, or undefined (None) standing for
\* the null returned when JSON.parse throws.
parseClaudeCodeOutput(output) ==
  LET jsonString == Trim(JsonString(output, output))
  IN  JsonParseText(jsonString)

\* ------------------------------------------------------------------------
\* Conversation history and the workflow under refinement
\* ------------------------------------------------------------------------
\* A message of the conversation; status is ok, loading or error.
Message(id, sender, content, status) ==
  [id |-> id, sender |-> sender, content |-> content, status |-> status]

ConversationHistory(messages, currentIteration) ==
  [messages |-> messages, currentIteration |-> currentIteration]

EmptyHistory == ConversationHistory(<<>>, 0)

\* A history longer than the window of the prompt.
LongHistory ==
  ConversationHistory(
    [i \in 1..7 |-> Message("h" \o ToString(i), IF i % 2 = 1 THEN "user" ELSE "assistant",
                            "c" \o ToString(i), "ok")], 3)

\* The workflow (or the nested flow) the user is refining.
BaseWorkflow ==
  [id |-> "wf0", nodes |-> <<Node("n1", "start"), Node("n3", "end")>>, connections |-> "conns0"]

\* messages.slice(-6): the copy it returns, and its receiver, which it leaves
\* as it was.
SpliceRecent(messages) ==
  [result   |-> SubSeq(messages, IF Len(messages) > 6 THEN Len(messages) - 5 ELSE 1, Len(messages)),
   receiver |-> SubSeq(messages, 1, IF Len(messages) > 6 THEN Len(messages) - 6 ELSE 0)]

SliceRecent(messages) ==
  [result   |-> SubSeq(messages, IF Len(messages) > 6 THEN Len(messages) - 5 ELSE 1, Len(messages)),
   receiver |-> messages]

\* ------------------------------------------------------------------------
\* State
\* ------------------------------------------------------------------------
\* attempts[a]      everything that belongs to the refinement attempt a: the
\*                  position of its orchestrator call, its subprocess, its
\*                  timers and its results (fields listed at IdleAttempt)
\* activeProcesses  the live registry: request id -> optional entry
\* cancelCalls      number of cancel calls made so far
\* lastCancel       optional record of the latest cancel call and its return
\* killFailures     number of kill() calls the operating system has rejected
\* panel            the refinement chat panel with the stores it reads and
\*                  writes (fields listed at OpenPanel)
\* call             one call of a component that is a pure function (the
\*                  resolver, the classifier, the diff engine): its arguments
\*                  and, once it has returned, its result
VARIABLES attempts, activeProcesses, cancelCalls, lastCancel, killFailures, panel, call

vars == <<attempts, activeProcesses, cancelCalls, lastCancel, killFailures, panel, call>>

Attempts == RequestIds

\* No component is called on its own.
NoCall == [fn |-> "none"]

IdleAttempt ==
  [ stage        |-> "idle",      \* idle, loading, executing, done
    mode         |-> "workflow",  \* workflow (refineWorkflow) or subAgentFlow
    useSkills    |-> FALSE,
    withId       |-> FALSE,       \* requestId passed to the call or undefined
    proc         |-> "none",      \* none, running, exited, nospawn
    ignoresTerm  |-> FALSE,       \* the subprocess ignores SIGTERM
    sigs         |-> {},          \* signals delivered to the subprocess
    killed       |-> FALSE,       \* childProcess.killed
    timeout      |-> "none",      \* none, armed, fired, cleared
    timedOut     |-> FALSE,
    grace        |-> "none",      \* the 500 ms timer of cancel: none, armed, fired
    stdout       |-> <<>>,
    cli          |-> None,        \* value the promise of executeClaudeCodeCLI resolved with
    resolveCalls |-> 0,           \* result-producing branches taken (calls of resolve)
    first        |-> "none",      \* first of timeout / exit / error that fired
    result       |-> None,        \* value refineWorkflow / refineSubAgentFlow returned
    exitCode     |-> "none",      \* code 'exit' was delivered with: 0, 1, null
    cancelled    |-> FALSE,       \* some cancel found the attempt in the registry
    firstCancelRet   |-> "none",  \* return of the first cancel issued while in flight
    firstCancelStage |-> "none",  \* stage the attempt was in at that cancel
    graceAlive   |-> FALSE,       \* the subprocess was still running when the grace timer fired
    availableSkills |-> <<>>,     \* the catalogue loaded in step 1
    schema       |-> "none",      \* what loadWorkflowSchema did: ok, fail, throws
    scan         |-> "none",      \* what scanAllSkills did: ok, throws
    validation   |-> "none",      \* what validateAIGeneratedWorkflow would do: valid, invalid, throws
    currentWorkflow     |-> BaseWorkflow,   \* the caller's workflow object, as it is now
    conversationHistory |-> EmptyHistory,   \* the caller's history object, as it is now
    given        |-> None,        \* the workflow and history the call was made with
    scanned      |-> <<>>,        \* the catalogue scanAllSkills returned, as it is now
    recentMessages |-> <<>>,      \* the conversation context of the prompt
    validated    |-> None ]       \* the workflow validateAIGeneratedWorkflow was called with

\* The pair the handlers read and write: the attempts and the registry.
World(a, r, k) == [a |-> a, r |-> r, k |-> k]

\* ------------------------------------------------------------------------
\* Process runner: executeClaudeCodeCLI
\* ------------------------------------------------------------------------
CliSuccess(out) == [success |-> TRUE, output |-> Some(out), error |-> None]

CliFailure(code) == [success |-> FALSE, output |-> None, error |-> Some(code)]

\* A resolve whose last call wins.
ResolveLastWins(p, value) ==
  [p EXCEPT !.cli = Some(value), !.resolveCalls = p.resolveCalls + 1]

\* resolve(...) of the promise: the first call settles it, later calls are ignored.
Resolve(p, value) ==
  [p EXCEPT !.cli = IF p.cli = None THEN Some(value) ELSE p.cli,
            !.resolveCalls = p.resolveCalls + 1]

\* clearTimeout(timeout)
ClearTimeout(p) ==
  [p EXCEPT !.timeout = IF p.timeout = "armed" THEN "cleared" ELSE p.timeout]

\* Unregister that empties the registry (activeProcesses.clear()).
UnregisterEveryone(w, a) ==
  IF w.a[a].withId THEN [w EXCEPT !.r = [id \in RequestIds |-> None]] ELSE w

\* if (requestId) activeProcesses.delete(requestId)
Unregister(w, a) ==
  IF w.a[a].withId THEN [w EXCEPT !.r[a] = None] ELSE w

\* if (requestId) activeProcesses.set(requestId, {process, startTime})
Register(w, a) ==
  IF w.a[a].withId THEN [w EXCEPT !.r[a] = Some([process |-> a])] ELSE w

MarkFirst(p, ev) ==
  [p EXCEPT !.first = IF p.first = "none" THEN ev ELSE p.first]

\* childProcess.on('error', ...)
OnError(w, a, errCode) ==
  LET w1 == Unregister([w EXCEPT !.a[a] = ClearTimeout(MarkFirst(w.a[a],
                          IF errCode = "ENOENT" THEN "errorENOENT" ELSE "errorOther"))], a)
      p  == w1.a[a]
  IN  IF p.timedOut THEN w1
      ELSE IF errCode = "ENOENT"
           THEN [w1 EXCEPT !.a[a] = Resolve(p, CliFailure("COMMAND_NOT_FOUND"))]
           ELSE [w1 EXCEPT !.a[a] = Resolve(p, CliFailure("UNKNOWN_ERROR"))]

\* childProcess.on('exit', ...)
OnExit(w, a, code) ==
  LET w1 == Unregister([w EXCEPT !.a[a] = ClearTimeout(MarkFirst(w.a[a],
                          IF code = "0" THEN "exit0" ELSE "exitNonZero"))], a)
      p  == w1.a[a]
  IN  IF p.timedOut THEN w1
      ELSE IF code = "0"
           THEN [w1 EXCEPT !.a[a] = Resolve(p, CliSuccess(Trim(p.stdout)))]
           ELSE [w1 EXCEPT !.a[a] = Resolve(p, CliFailure("UNKNOWN_ERROR"))]

\* childProcess.kill(signal): delivers the signal to a running subprocess and
\* sets childProcess.killed; a subprocess that is gone is left alone (ESRCH);
\* a kill the operating system rejects emits 'error' synchronously.
Kill(w, a, signal, ok) ==
  IF w.a[a].proc # "running" THEN w
  ELSE IF ok
       THEN [w EXCEPT !.a[a].sigs = @ \cup {signal}, !.a[a].killed = TRUE]
       ELSE OnError([w EXCEPT !.k = @ + 1], a, "EPERM")

\* OnTimeout without the removal of the registry entry.
OnTimeoutKeepsEntry(w, a, ok) ==
  LET w0 == [w EXCEPT !.a[a] = MarkFirst([@ EXCEPT !.timeout = "fired"], "timeout")]
      w1 == [w0 EXCEPT !.a[a].timedOut = TRUE]
      w2 == Kill(w1, a, "SIGTERM", ok)
  IN  [w2 EXCEPT !.a[a] = Resolve(@, CliFailure("TIMEOUT"))]

\* OnTimeout that signals the subprocess and leaves the resolution to the
\* 'exit' handler.
OnTimeoutLeavesResolveToExit(w, a, ok) ==
  LET w0 == [w EXCEPT !.a[a] = MarkFirst([@ EXCEPT !.timeout = "fired"], "timeout")]
      w1 == Kill(w0, a, "SIGTERM", ok)
  IN  Unregister(w1, a)

\* the callback of setTimeout(..., timeoutMs)
OnTimeout(w, a, ok) ==
  LET w0 == [w EXCEPT !.a[a] = MarkFirst([@ EXCEPT !.timeout = "fired"], "timeout")]
      w1 == [w0 EXCEPT !.a[a].timedOut = TRUE]
      w2 == Kill(w1, a, "SIGTERM", ok)
      w3 == Unregister(w2, a)
  IN  [w3 EXCEPT !.a[a] = Resolve(@, CliFailure("TIMEOUT"))]

\* The body of executeClaudeCodeCLI up to the return of the promise: spawn,
\* register, arm the timer.  A spawn that fails leaves no subprocess and emits
\* 'error' on the next tick, before any timer or message callback can run.
executeClaudeCodeCLI(w, a, spawnError, ignores) ==
  LET w1 == [w EXCEPT !.a[a].proc = IF spawnError = "none" THEN "running" ELSE "nospawn",
                      !.a[a].ignoresTerm = ignores]
      w2 == Register(w1, a)
      w3 == [w2 EXCEPT !.a[a].timeout = "armed"]
  IN  IF spawnError = "none" THEN w3 ELSE OnError(w3, a, spawnError)

\* ------------------------------------------------------------------------
\* Process runner: cancelRefinement / cancelGeneration
\* ------------------------------------------------------------------------
\* CancelActive without the removal of the registry entry.
CancelActiveKeepsEntry(w, requestId, ok) ==
  LET activeGen == w.r[requestId]
  IN  IF activeGen = None
      THEN [w |-> w, cancelled |-> FALSE]
      ELSE LET a  == The(activeGen).process
               w1 == Kill(w, a, "SIGTERM", ok)
           IN  [w |-> [w1 EXCEPT !.a[a].grace = "armed"], cancelled |-> TRUE]

\* CancelActive that reports success for an id it did not find.
CancelActiveAlwaysTrue(w, requestId, ok) ==
  LET activeGen == w.r[requestId]
  IN  IF activeGen = None
      THEN [w |-> w, cancelled |-> TRUE]
      ELSE LET a  == The(activeGen).process
               w1 == Kill(w, a, "SIGTERM", ok)
               w2 == [w1 EXCEPT !.a[a].grace = "armed"]
           IN  [w |-> [w2 EXCEPT !.r[requestId] = None], cancelled |-> TRUE]

\* The two functions have the same body.  Returns the new world and the
\* value of `cancelled`.
CancelActive(w, requestId, ok) ==
  LET activeGen == w.r[requestId]
  IN  IF activeGen = None
      THEN [w |-> w, cancelled |-> FALSE]
      ELSE LET a  == The(activeGen).process
               w1 == Kill(w, a, "SIGTERM", ok)
               w2 == [w1 EXCEPT !.a[a].grace = "armed"]
           IN  [w |-> [w2 EXCEPT !.r[requestId] = None], cancelled |-> TRUE]

cancelRefinement(w, requestId, ok) == CancelActive(w, requestId, ok)

cancelGeneration(w, requestId, ok) == CancelActive(w, requestId, ok)

\* the callback of setTimeout(..., 500) in cancel
OnGraceTimer(w, a, ok) ==
  LET w1 == [w EXCEPT !.a[a].grace = "fired",
                      !.a[a].graceAlive = (w.a[a].proc = "running")]
  IN  IF ~w1.a[a].killed THEN Kill(w1, a, "SIGKILL", ok) ELSE w1

\* ------------------------------------------------------------------------
\* Refinement orchestrator: refineWorkflow / refineSubAgentFlow
\* ------------------------------------------------------------------------
\* The skill catalogue scanAllSkills returns (personal first, then project).
Skill(name, scope, path, status) ==
  [name |-> name, scope |-> scope, skillPath |-> path, validationStatus |-> status]

Catalogues ==
  { <<>>,
    <<Skill("s1", "personal", "/home/s1", "valid"), Skill("s1", "project", "/proj/s1", "valid")>> }

\* RefinementResult / SubAgentFlowRefinementResult
SuccessResult(workflow) ==
  [success |-> TRUE, refinedWorkflow |-> Some(workflow), clarificationMessage |-> None,
   error |-> None]

ClarificationResult(text) ==
  [success |-> TRUE, refinedWorkflow |-> None, clarificationMessage |-> Some(text),
   error |-> None]

ErrorResult(code, details) ==
  [success |-> FALSE, refinedWorkflow |-> None, clarificationMessage |-> None,
   error |-> Some([code |-> code, details |-> details])]

\* resolveSkillPaths that looks a skill up by its name alone.
resolveSkillPathsByName(nodes, availableSkills) ==
  [i \in 1..Len(nodes) |->
     LET node == nodes[i]
         matches == {k \in 1..Len(availableSkills) : availableSkills[k].name = node.data.name}
     IN  IF node.type # "skill" THEN node
         ELSE IF matches # {}
              THEN LET matchedSkill == availableSkills[CHOOSE k \in matches : \A m \in matches : k <= m]
                   IN  [node EXCEPT !.data.skillPath = matchedSkill.skillPath,
                                    !.data.validationStatus = matchedSkill.validationStatus]
              ELSE [node EXCEPT !.data.validationStatus = "missing"]]

\* resolveSkillPaths that clears the path of a skill it does not find.
resolveSkillPathsClearsMissing(nodes, availableSkills) ==
  [i \in 1..Len(nodes) |->
     LET node == nodes[i]
         matches == {k \in 1..Len(availableSkills) :
                       /\ availableSkills[k].name = node.data.name
                       /\ availableSkills[k].scope = node.data.scope}
     IN  IF node.type # "skill" THEN node
         ELSE IF matches # {}
              THEN LET matchedSkill == availableSkills[CHOOSE k \in matches : \A m \in matches : k <= m]
                   IN  [node EXCEPT !.data.skillPath = matchedSkill.skillPath,
                                    !.data.validationStatus = matchedSkill.validationStatus]
              ELSE [node EXCEPT !.data.skillPath = "", !.data.validationStatus = "missing"]]

\* resolveSkillPaths, on the node list
resolveSkillPaths(nodes, availableSkills) ==
  [i \in 1..Len(nodes) |->
     LET node == nodes[i]
         matches == {k \in 1..Len(availableSkills) :
                       /\ availableSkills[k].name = node.data.name
                       /\ availableSkills[k].scope = node.data.scope}
     IN  IF node.type # "skill" THEN node
         ELSE IF matches # {}
              THEN LET matchedSkill == availableSkills[CHOOSE k \in matches : \A m \in matches : k <= m]
                   IN  [node EXCEPT !.data.skillPath = matchedSkill.skillPath,
                                    !.data.validationStatus = matchedSkill.validationStatus]
              ELSE [node EXCEPT !.data.validationStatus = "missing"]]

\* resolveSkillPaths, on the workflow: {...workflow, nodes: resolvedNodes}
resolveSkillPathsIn(workflow, availableSkills) ==
  [workflow EXCEPT !.nodes = resolveSkillPaths(workflow.nodes, availableSkills)]

\* validateSubAgentFlowNodes: the "type (id)" entries of the prohibited nodes
validateSubAgentFlowNodes(nodes) ==
  SelectSeq([i \in 1..Len(nodes) |-> <<nodes[i].type, nodes[i].id>>],
            LAMBDA e : e[1] \in SUBAGENTFLOW_PROHIBITED_NODE_TYPES)

\* A catch block that rethrows: the promise of the orchestrator rejects and
\* the caller gets no result of the declared type.
CaughtRethrows ==
  [success |-> FALSE, refinedWorkflow |-> None, clarificationMessage |-> None,
   error |-> Some([code |-> "rejected", details |-> <<>>])]

\* The catch block of both orchestrators.
Caught == ErrorResult("UNKNOWN_ERROR", <<>>)

\* What validateAIGeneratedWorkflow reports: {valid, errors}.
ValidatorReport(validation) ==
  IF validation = "invalid"
  THEN [valid |-> FALSE, errors |-> <<[message |-> "e1"], [message |-> "e2"]>>]
  ELSE [valid |-> TRUE, errors |-> <<>>]

\* validation.errors.map((e) => e.message).join('; ')
RECURSIVE JoinMessages(_)
JoinMessages(errors) ==
  IF errors = <<>> THEN <<>>
  ELSE IF Len(errors) = 1 THEN <<errors[1].message>>
  ELSE <<errors[1].message, "; ">> \o JoinMessages(Tail(errors))

\* What an orchestrator returned, with the workflow the validator was called
\* with on the way (None when it was not called).
Returned(result, validated) == [result |-> result, validated |-> validated]

\* WorkflowFromParsed whose field test leaves out the id.
WorkflowFromParsedNoIdCheck(parsed, useSkills, availableSkills, validation) ==
  IF parsed = None \/ ~The(parsed).truthy
  THEN Returned(ErrorResult("PARSE_ERROR", <<>>), None)
  ELSE LET v == The(parsed)
       IN  IF v.nodes = None \/ v.connections = None
           THEN Returned(ErrorResult("PARSE_ERROR", <<>>), None)
           ELSE IF useSkills /\ (~The(v.nodes).isArray \/ HasNullNode(The(v.nodes).items))
           THEN Returned(Caught, None)
           ELSE LET nodes == IF useSkills
                             THEN resolveSkillPaths(The(v.nodes).items, availableSkills)
                             ELSE The(v.nodes).items
                    refinedWorkflow == [id |-> IF v.id = None THEN "" ELSE The(v.id),
                                        nodes |-> nodes, connections |-> The(v.connections)]
                    report == ValidatorReport(validation)
                IN  IF validation = "throws"
                    THEN Returned(Caught, Some(refinedWorkflow))
                    ELSE IF ~report.valid
                    THEN Returned(ErrorResult("VALIDATION_ERROR", JoinMessages(report.errors)),
                                  Some(refinedWorkflow))
                    ELSE Returned(SuccessResult(refinedWorkflow), Some(refinedWorkflow))

\* WorkflowFromParsed without the test of `!parsedOutput`: reading a field of
\* null throws.
WorkflowFromParsedNoNullCheck(parsed, useSkills, availableSkills, validation) ==
  IF parsed = None \/ ~The(parsed).truthy
  THEN Returned(Caught, None)
  ELSE LET v == The(parsed)
       IN  IF v.id = None \/ v.nodes = None \/ v.connections = None
           THEN Returned(ErrorResult("PARSE_ERROR", <<>>), None)
           ELSE IF useSkills /\ (~The(v.nodes).isArray \/ HasNullNode(The(v.nodes).items))
           THEN Returned(Caught, None)
           ELSE LET nodes == IF useSkills
                             THEN resolveSkillPaths(The(v.nodes).items, availableSkills)
                             ELSE The(v.nodes).items
                    refinedWorkflow == [id |-> The(v.id), nodes |-> nodes,
                                        connections |-> The(v.connections)]
                    report == ValidatorReport(validation)
                IN  IF validation = "throws"
                    THEN Returned(Caught, Some(refinedWorkflow))
                    ELSE IF ~report.valid
                    THEN Returned(ErrorResult("VALIDATION_ERROR", JoinMessages(report.errors)),
                                  Some(refinedWorkflow))
                    ELSE Returned(SuccessResult(refinedWorkflow), Some(refinedWorkflow))

\* WorkflowFromParsed that validates the workflow as parsed and resolves the
\* skill references afterwards.
WorkflowFromParsedValidatesUnresolved(parsed, useSkills, availableSkills, validation) ==
  IF parsed = None \/ ~The(parsed).truthy
  THEN Returned(ErrorResult("PARSE_ERROR", <<>>), None)
  ELSE LET v == The(parsed)
       IN  IF v.id = None \/ v.nodes = None \/ v.connections = None
           THEN Returned(ErrorResult("PARSE_ERROR", <<>>), None)
           ELSE IF useSkills /\ (~The(v.nodes).isArray \/ HasNullNode(The(v.nodes).items))
           THEN Returned(Caught, None)   \* workflow.nodes.map is not a function, or node is null
           ELSE LET nodes == IF useSkills
                             THEN resolveSkillPaths(The(v.nodes).items, availableSkills)
                             ELSE The(v.nodes).items
                    refinedWorkflow == [id |-> The(v.id), nodes |-> nodes,
                                        connections |-> The(v.connections)]
                    asParsed == [refinedWorkflow EXCEPT !.nodes = The(v.nodes).items]
                    report == ValidatorReport(validation)
                IN  IF validation = "throws"
                    THEN Returned(Caught, Some(asParsed))
                    ELSE IF ~report.valid
                    THEN Returned(ErrorResult("VALIDATION_ERROR", JoinMessages(report.errors)),
                                  Some(asParsed))
                    ELSE Returned(SuccessResult(refinedWorkflow), Some(asParsed))

\* refineWorkflow from the parsed value on (steps 6 to 8). validation is what
\* validateAIGeneratedWorkflow does: "valid", "invalid" or "throws".
WorkflowFromParsed(parsed, useSkills, availableSkills, validation) ==
  IF parsed = None \/ ~The(parsed).truthy
  THEN Returned(ErrorResult("PARSE_ERROR", <<>>), None)
  ELSE LET v == The(parsed)
       IN  IF v.id = None \/ v.nodes = None \/ v.connections = None
           THEN Returned(ErrorResult("PARSE_ERROR", <<>>), None)
           ELSE IF useSkills /\ (~The(v.nodes).isArray \/ HasNullNode(The(v.nodes).items))
           THEN Returned(Caught, None)   \* workflow.nodes.map is not a function, or node is null
           ELSE LET nodes == IF useSkills
                             THEN resolveSkillPaths(The(v.nodes).items, availableSkills)
                             ELSE The(v.nodes).items
                    refinedWorkflow == [id |-> The(v.id), nodes |-> nodes,
                                        connections |-> The(v.connections)]
                    report == ValidatorReport(validation)
                IN  IF validation = "throws"
                    THEN Returned(Caught, Some(refinedWorkflow))
                    ELSE IF ~report.valid
                    THEN Returned(ErrorResult("VALIDATION_ERROR", JoinMessages(report.errors)),
                                  Some(refinedWorkflow))
                    ELSE Returned(SuccessResult(refinedWorkflow), Some(refinedWorkflow))

\* SubAgentFlowFromParsed that counts the nodes before it looks at their types.
SubAgentFlowFromParsedCountFirst(parsed, useSkills, availableSkills) ==
  IF parsed = None \/ ~The(parsed).truthy
  THEN ErrorResult("PARSE_ERROR", <<>>)
  ELSE LET v == The(parsed)
       IN  IF v.nodes = None \/ v.connections = None
           THEN ErrorResult("PARSE_ERROR", <<>>)
           ELSE IF ~The(v.nodes).isArray \/ HasNullNode(The(v.nodes).items)
           THEN Caught
           ELSE LET nodes == The(v.nodes).items
                    prohibitedNodes == validateSubAgentFlowNodes(nodes)
                IN  IF Len(nodes) > SUBAGENTFLOW_MAX_NODES
                    THEN ErrorResult("VALIDATION_ERROR", <<>>)
                    ELSE IF prohibitedNodes # <<>>
                    THEN ErrorResult("PROHIBITED_NODE_TYPE", prohibitedNodes)
                    ELSE SuccessResult([id |-> "",
                                        nodes |-> IF useSkills
                                                  THEN resolveSkillPaths(nodes, availableSkills)
                                                  ELSE nodes,
                                        connections |-> The(v.connections)])

\* SubAgentFlowFromParsed that rejects a fragment of exactly the maximum size.
SubAgentFlowFromParsedOffByOne(parsed, useSkills, availableSkills) ==
  IF parsed = None \/ ~The(parsed).truthy
  THEN ErrorResult("PARSE_ERROR", <<>>)
  ELSE LET v == The(parsed)
       IN  IF v.nodes = None \/ v.connections = None
           THEN ErrorResult("PARSE_ERROR", <<>>)
           ELSE IF ~The(v.nodes).isArray \/ HasNullNode(The(v.nodes).items)
           THEN Caught
           ELSE LET nodes == The(v.nodes).items
                    prohibitedNodes == validateSubAgentFlowNodes(nodes)
                IN  IF prohibitedNodes # <<>>
                    THEN ErrorResult("PROHIBITED_NODE_TYPE", prohibitedNodes)
                    ELSE IF Len(nodes) >= SUBAGENTFLOW_MAX_NODES
                    THEN ErrorResult("VALIDATION_ERROR", <<>>)
                    ELSE SuccessResult([id |-> "",
                                        nodes |-> IF useSkills
                                                  THEN resolveSkillPaths(nodes, availableSkills)
                                                  ELSE nodes,
                                        connections |-> The(v.connections)])

\* SubAgentFlowFromParsed that resolves the skill references whatever the
\* use-skills flag says.
SubAgentFlowFromParsedAlwaysResolves(parsed, useSkills, availableSkills) ==
  IF parsed = None \/ ~The(parsed).truthy
  THEN ErrorResult("PARSE_ERROR", <<>>)
  ELSE LET v == The(parsed)
       IN  IF v.nodes = None \/ v.connections = None
           THEN ErrorResult("PARSE_ERROR", <<>>)
           ELSE IF ~The(v.nodes).isArray \/ HasNullNode(The(v.nodes).items)
           THEN Caught
           ELSE LET nodes == The(v.nodes).items
                    prohibitedNodes == validateSubAgentFlowNodes(nodes)
                IN  IF prohibitedNodes # <<>>
                    THEN ErrorResult("PROHIBITED_NODE_TYPE", prohibitedNodes)
                    ELSE IF Len(nodes) > SUBAGENTFLOW_MAX_NODES
                    THEN ErrorResult("VALIDATION_ERROR", <<>>)
                    ELSE SuccessResult([id |-> "",
                                        nodes |-> resolveSkillPaths(nodes, availableSkills),
                                        connections |-> The(v.connections)])

\* refineSubAgentFlow from the parsed value on (steps 5 to 8).
SubAgentFlowFromParsed(parsed, useSkills, availableSkills) ==
  IF parsed = None \/ ~The(parsed).truthy
  THEN ErrorResult("PARSE_ERROR", <<>>)
  ELSE LET v == The(parsed)
       IN  IF v.nodes = None \/ v.connections = None
           THEN ErrorResult("PARSE_ERROR", <<>>)
           ELSE IF ~The(v.nodes).isArray \/ HasNullNode(The(v.nodes).items)
           THEN Caught   \* innerWorkflow.nodes is not iterable, or node is null
           ELSE LET nodes == The(v.nodes).items
                    prohibitedNodes == validateSubAgentFlowNodes(nodes)
                IN  IF prohibitedNodes # <<>>
                    THEN ErrorResult("PROHIBITED_NODE_TYPE", prohibitedNodes)
                    ELSE IF Len(nodes) > SUBAGENTFLOW_MAX_NODES
                    THEN ErrorResult("VALIDATION_ERROR", <<>>)
                    ELSE SuccessResult([id |-> "",
                                        nodes |-> IF useSkills
                                                  THEN resolveSkillPaths(nodes, availableSkills)
                                                  ELSE nodes,
                                        connections |-> The(v.connections)])

\* AfterCli without the fallback error of `cliResult.error ?? {...}`.
AfterCliNoFallback(p, cliResult, availableSkills, validation) ==
  IF ~cliResult.success \/ cliResult.output = None \/ The(cliResult.output) = <<>>
  THEN IF cliResult.error = None
       THEN Returned([success |-> FALSE, refinedWorkflow |-> None,
                      clarificationMessage |-> None, error |-> None], None)
       ELSE Returned(ErrorResult(The(cliResult.error), <<>>), None)
  ELSE LET output == The(cliResult.output)
       IN  IF isClarificationMessage(output)
           THEN Returned(ClarificationResult(extractClarificationMessage(output)), None)
           ELSE IF p.mode = "workflow"
                THEN WorkflowFromParsed(parseClaudeCodeOutput(output), p.useSkills,
                                        availableSkills, validation)
                ELSE Returned(SubAgentFlowFromParsed(parseClaudeCodeOutput(output),
                                                     p.useSkills, availableSkills), None)

\* Both orchestrators from the resolution of executeClaudeCodeCLI on.
AfterCli(p, cliResult, availableSkills, validation) ==
  IF ~cliResult.success \/ cliResult.output = None \/ The(cliResult.output) = <<>>
  THEN Returned(ErrorResult(IF cliResult.error = None THEN "UNKNOWN_ERROR"
                            ELSE The(cliResult.error), <<>>), None)
  ELSE LET output == The(cliResult.output)
       IN  IF isClarificationMessage(output)
           THEN Returned(ClarificationResult(extractClarificationMessage(output)), None)
           ELSE IF p.mode = "workflow"
                THEN WorkflowFromParsed(parseClaudeCodeOutput(output), p.useSkills,
                                        availableSkills, validation)
                ELSE Returned(SubAgentFlowFromParsed(parseClaudeCodeOutput(output),
                                                     p.useSkills, availableSkills), None)

\* The continuation of `await executeClaudeCodeCLI(...)`: it runs as a
\* microtask of the handler that resolved the promise.
Settle(w, a, validation) ==
  LET p == w.a[a]
  IN  IF p.stage = "executing" /\ p.cli # None
      THEN LET returned == AfterCli(p, The(p.cli), p.availableSkills, validation)
           IN  [w EXCEPT !.a[a].stage = "done", !.a[a].result = Some(returned.result),
                         !.a[a].validated = returned.validated]
      ELSE w

\* AfterLoad that goes on without a catalogue when scanAllSkills fails.
AfterLoadIgnoresScanFailure(w, a, schema, scan, skills, spawnError, ignores) ==
  LET p == w.a[a]
      done(r) == [w EXCEPT !.a[a].stage = "done", !.a[a].result = Some(r)]
  IN  IF schema = "throws"
      THEN done(Caught)
      ELSE IF schema = "fail"
      THEN done(ErrorResult("UNKNOWN_ERROR", <<>>))
      ELSE LET recent == SliceRecent(p.conversationHistory.messages)
               w1 == [w EXCEPT !.a[a].stage = "executing",
                               !.a[a].availableSkills =
                                  IF p.useSkills /\ scan = "ok" THEN skills ELSE <<>>,
                               !.a[a].scanned = IF p.useSkills /\ scan = "ok" THEN skills ELSE <<>>,
                               !.a[a].conversationHistory.messages = recent.receiver,
                               !.a[a].recentMessages = recent.result]
           IN  Settle(executeClaudeCodeCLI(w1, a, spawnError, ignores), a, "valid")

\* The orchestrator from the completion of the context loads to its next
\* suspension: the early returns of step 1, or prompt construction and the
\* call of executeClaudeCodeCLI.  schema is "ok", "fail" or "throws"; scan is
\* "ok" or "throws"; skills is the catalogue scanAllSkills returns.
AfterLoad(w, a, schema, scan, skills, spawnError, ignores) ==
  LET p == w.a[a]
      done(r) == [w EXCEPT !.a[a].stage = "done", !.a[a].result = Some(r)]
  IN  IF schema = "throws" \/ (p.useSkills /\ scan = "throws")
      THEN done(Caught)
      ELSE IF schema = "fail"
      THEN done(ErrorResult("UNKNOWN_ERROR", <<>>))
      ELSE LET recent == SliceRecent(p.conversationHistory.messages)
               w1 == [w EXCEPT !.a[a].stage = "executing",
                               !.a[a].availableSkills = IF p.useSkills THEN skills ELSE <<>>,
                               !.a[a].scanned = IF p.useSkills THEN skills ELSE <<>>,
                               !.a[a].conversationHistory.messages = recent.receiver,
                               !.a[a].recentMessages = recent.result]
           IN  Settle(executeClaudeCodeCLI(w1, a, spawnError, ignores), a, "valid")

\* ------------------------------------------------------------------------
\* Refinement chat panel (RefinementChatPanel) with the refinement store and
\* the workflow store
\* ------------------------------------------------------------------------
PanelModes == {"workflow", "subAgentFlow"}

\* The panel as it opens on a workflow (or on one of its sub-agent flows).
OpenPanel(mode) ==
  [ mode                |-> mode,
    live                |-> BaseWorkflow,   \* workflow store: the live workflow / nested flow
    conversationHistory |-> EmptyHistory,   \* refinement store
    isProcessing        |-> FALSE,          \* refinement store
    pending             |-> None,           \* the request handleSend / handleRetry awaits
    diffSummary         |-> None,           \* diff summary computed for a proposal
    diffAccepted        |-> FALSE,          \* the user accepted the diff preview
    lastOutcome         |-> "none",         \* what the latest settled request ended with
    atRequest           |-> None ]          \* live graph and history when the latest request began

\* Refinement store: addUserMessage
addUserMessage(history, id, content) ==
  [history EXCEPT !.messages = Append(@, Message(id, "user", content, "ok"))]

\* Refinement store: addLoadingAiMessage
addLoadingAiMessage(history, id) ==
  [history EXCEPT !.messages = Append(@, Message(id, "assistant", "", "loading"))]

\* Refinement store: updateMessageContent, updateMessageLoadingState and
\* updateMessageErrorState, on the message with that id
updateMessage(history, id, content, status) ==
  [history EXCEPT !.messages =
     [i \in 1..Len(@) |-> IF @[i].id = id
                           THEN [@[i] EXCEPT !.content = content, !.status = status]
                           ELSE @[i]]]

\* Refinement store: removeMessage
removeMessage(history, id) ==
  [history EXCEPT !.messages = SelectSeq(@, LAMBDA m : m.id # id)]

\* Refinement store: startProcessing
startProcessing(p, request) == [p EXCEPT !.isProcessing = TRUE, !.pending = Some(request)]

\* Refinement store: handleRefinementSuccess
handleRefinementSuccess(p, updatedConversationHistory) ==
  [p EXCEPT !.conversationHistory = updatedConversationHistory,
            !.isProcessing = FALSE, !.pending = None]

\* Refinement store: handleRefinementFailed
handleRefinementFailed(p) == [p EXCEPT !.isProcessing = FALSE, !.pending = None]

\* What the webview refinement service hands to the panel for a result of
\* the orchestrator: a result of type success or clarification with the
\* assistant message and the history updated by the round trip, or a thrown
\* WorkflowRefinementError with the code of the error.
Outcome(type, code, refined, aiMessage, updated) ==
  [type |-> type, code |-> code, refined |-> refined, aiMessage |-> aiMessage,
   updatedConversationHistory |-> updated]

\* The payload field that a result does not carry (undefined).
NoWorkflow == [id |-> "", nodes |-> <<>>, connections |-> ""]

Thrown(code) == Outcome("throw", code, NoWorkflow, Message("", "assistant", "", "ok"), EmptyHistory)

\* The history after one round trip: the user message and the assistant's
\* response appended, currentIteration one higher.
UpdatedHistory(sent, userMessage, aiMessage) ==
  ConversationHistory(sent.messages \o <<userMessage, aiMessage>>, sent.currentIteration + 1)

ServiceOutcome(result, request) ==
  LET userMessage == Message("u" \o request.requestId, "user", request.message, "ok")
      aiMessage(content) == Message(request.aiMessageId, "assistant", content, "ok")
  IN  IF ~result.success
      THEN Thrown(The(result.error).code)
      ELSE IF result.refinedWorkflow # None
      THEN Outcome("success", "", The(result.refinedWorkflow), aiMessage("applied"),
                   UpdatedHistory(request.sent, userMessage, aiMessage("applied")))
      ELSE Outcome("clarification", "", NoWorkflow, aiMessage("clarification"),
                   UpdatedHistory(request.sent, userMessage, aiMessage("clarification")))

\* The ways the service may hand over a result: as ServiceOutcome does, or,
\* for an error, as the error variant of the tagged union RefinementResult
\* ({error, code, message, details}) returned instead of thrown.
ServiceOutcomes(result, request) ==
  {ServiceOutcome(result, request)}
    \cup (IF ~result.success
          THEN {Outcome("error", The(result.error).code, NoWorkflow,
                        Message("", "assistant", "", "ok"), EmptyHistory)}
          ELSE {})

\* handleSend up to its await, sending the history of the store as it is
\* after the two messages were added.
handleSendSendsStoreHistory(p, message, requestId) ==
  LET aiMessageId == "ai" \o requestId
      h == addLoadingAiMessage(addUserMessage(p.conversationHistory, "u" \o requestId, message),
                               aiMessageId)
  IN  startProcessing([p EXCEPT !.conversationHistory = h,
                                !.atRequest = Some([live |-> p.live, kind |-> "send",
                                                    conversationHistory |-> p.conversationHistory])],
                      [requestId |-> requestId, aiMessageId |-> aiMessageId, kind |-> "send",
                       message |-> message, sent |-> h])

\* handleSend up to its await: the user message and the loading assistant
\* message are added to the store, and the request is made with the history
\* the handler closed over, the one rendered before the two were added.
handleSend(p, message, requestId) ==
  LET aiMessageId == "ai" \o requestId
      h == addLoadingAiMessage(addUserMessage(p.conversationHistory, "u" \o requestId, message),
                               aiMessageId)
  IN  startProcessing([p EXCEPT !.conversationHistory = h,
                                !.atRequest = Some([live |-> p.live, kind |-> "send",
                                                    conversationHistory |-> p.conversationHistory])],
                      [requestId |-> requestId, aiMessageId |-> aiMessageId, kind |-> "send",
                       message |-> message, sent |-> p.conversationHistory])

\* The index of the message with that id (findIndex + 1), or 0.
IndexOfMessage(messages, messageId) ==
  IF \E i \in 1..Len(messages) : messages[i].id = messageId
  THEN CHOOSE i \in 1..Len(messages) :
         messages[i].id = messageId /\ \A j \in 1..(i - 1) : messages[j].id # messageId
  ELSE 0

\* handleRetry returns at once: the message is unknown or the first one, or
\* the message before it is not a user message.
RetryReturns(p, messageId) ==
  LET messages == p.conversationHistory.messages
      errorMessageIndex == IndexOfMessage(messages, messageId)
  IN  errorMessageIndex <= 1 \/ messages[errorMessageIndex - 1].sender # "user"

\* handleRetry that goes through handleSend with the content of the message
\* before the retried one: the user message is added once more, and nothing
\* stops a retry of a message that no user message precedes.
handleRetryBySend(p, messageId, requestId) ==
  LET messages == p.conversationHistory.messages
      errorMessageIndex == IndexOfMessage(messages, messageId)
  IN  IF errorMessageIndex <= 1 THEN p
      ELSE [handleSend(p, messages[errorMessageIndex - 1].content, requestId)
              EXCEPT !.atRequest = Some([The(@) EXCEPT !.kind = "retry"]),
                     !.pending = Some([The(@) EXCEPT !.kind = "retry"])]

\* handleRetry up to its await: the failed assistant message is reused as the
\* loading message and the content of the user message before it is sent.
handleRetry(p, messageId, requestId) ==
  IF RetryReturns(p, messageId) THEN p
  ELSE LET messages == p.conversationHistory.messages
           userMessage == messages[IndexOfMessage(messages, messageId) - 1]
           h == updateMessage(p.conversationHistory, messageId,
                              messages[IndexOfMessage(messages, messageId)].content, "loading")
       IN  startProcessing([p EXCEPT !.conversationHistory = h,
                                     !.atRequest = Some([live |-> p.live, kind |-> "retry",
                                                         conversationHistory |-> p.conversationHistory])],
                           [requestId |-> requestId, aiMessageId |-> messageId, kind |-> "retry",
                            message |-> userMessage.content, sent |-> p.conversationHistory])

\* handleRefinementError
handleRefinementError(p, code, aiMessageId) ==
  IF code = "CANCELLED"
  THEN handleRefinementFailed([p EXCEPT !.conversationHistory = removeMessage(@, aiMessageId)])
  ELSE handleRefinementFailed(
         [p EXCEPT !.conversationHistory = updateMessage(@, aiMessageId, code, "error")])

\* updateWorkflow (workflow mode); updateSubAgentFlow with setNodes and
\* setEdges (subAgentFlow mode)
CommitRefined(p, refined) ==
  IF p.mode = "workflow"
  THEN [p EXCEPT !.live = refined]
  ELSE [p EXCEPT !.live.nodes = refined.nodes, !.live.connections = refined.connections]

\* AfterRefine that also commits what comes with a clarification.
AfterRefineCommitsAlways(p, outcome) ==
  LET aiMessageId == The(p.pending).aiMessageId
      answered == [p EXCEPT !.conversationHistory =
                     updateMessage(@, aiMessageId, outcome.aiMessage.content, "ok"),
                            !.lastOutcome = IF outcome.type = "throw" THEN outcome.code
                                            ELSE outcome.type]
  IN  IF outcome.type = "throw"
      THEN handleRefinementError([p EXCEPT !.lastOutcome = outcome.code], outcome.code, aiMessageId)
      ELSE IF outcome.type \in {"success", "clarification"}
      THEN handleRefinementSuccess(CommitRefined(answered, outcome.refined),
                                   outcome.updatedConversationHistory)
      ELSE [p EXCEPT !.lastOutcome = outcome.type]

\* handleSend and handleRetry from the settling of the awaited call on (the
\* two have the same code): the branches on result.type and the catch block.
AfterRefine(p, outcome) ==
  LET aiMessageId == The(p.pending).aiMessageId
      answered == [p EXCEPT !.conversationHistory =
                     updateMessage(@, aiMessageId, outcome.aiMessage.content, "ok"),
                            !.lastOutcome = IF outcome.type = "throw" THEN outcome.code
                                            ELSE outcome.type]
  IN  IF outcome.type = "throw"
      THEN handleRefinementError([p EXCEPT !.lastOutcome = outcome.code], outcome.code, aiMessageId)
      ELSE IF outcome.type = "success"
      THEN handleRefinementSuccess(CommitRefined(answered, outcome.refined),
                                   outcome.updatedConversationHistory)
      ELSE IF outcome.type = "clarification"
      THEN handleRefinementSuccess(answered, outcome.updatedConversationHistory)
      ELSE [p EXCEPT !.lastOutcome = outcome.type]

\* ------------------------------------------------------------------------
\* Inputs
\* ------------------------------------------------------------------------
\* What the subprocess may have written to stdout when it exits.
Outputs ==
  { <<>>, <<" ">>, <<"t">>, <<"c">>, <<"X">>,
    <<"Jwf">>, <<" ", "Jwf", "n">>, <<"[", "Jwf", "]">>, <<"[", "n", "Jsk", "n", "]">>,
    <<"t", "n", "[", "Jwf", "]">>, <<"c", "n", "Jwf">>, <<"[", "Jwf", "]", "n", "c">>,
    <<"Jsk">>, <<"Jin">>, <<"Jpro">>, <<"Jbig">>, <<"Jnoc">>, <<"Jna">>, <<"Jnull">>, <<"Jnum">>,
    <<"Jfull">>, <<"Jbigpro">>, <<"Jnul">>, <<"Jnon">>, <<"[", "X", "]">>, <<"t", "n", "Jwf">> }

SpawnErrors == {"none", "ENOENT", "EACCES"}

Validations == {"valid", "invalid", "throws"}

\* The inputs of one refinement: every mode, flag, collaborator behaviour and
\* output.
AllInputs ==
  [ modes |-> {"workflow", "subAgentFlow"}, useSkills |-> BOOLEAN,
    schemas |-> {"ok", "fail", "throws"}, scans |-> {"ok", "throws"},
    catalogues |-> Catalogues, outputs |-> Outputs, validations |-> Validations,
    histories |-> {LongHistory} ]

\* The inputs used when two refinements run side by side: what the process
\* runner does not look at is fixed.
RunnerInputs ==
  [ modes |-> {"workflow"}, useSkills |-> {FALSE},
    schemas |-> {"ok", "fail"}, scans |-> {"ok"},
    catalogues |-> {<<>>}, outputs |-> {<<>>, <<" ", "Jwf", "n">>}, validations |-> {"valid"},
    histories |-> {EmptyHistory} ]

\* The inputs of the refinements made from the chat panel.
PanelInputs ==
  [ modes |-> PanelModes, useSkills |-> {FALSE},
    schemas |-> {"ok", "fail"}, scans |-> {"ok"},
    catalogues |-> {<<>>}, outputs |-> {<<>>, <<"Jwf">>, <<"Jin">>, <<"c", "n", "Jwf">>, <<"X">>},
    validations |-> {"valid", "invalid"}, histories |-> {EmptyHistory} ]

\* ------------------------------------------------------------------------
\* Initial state and actions
\* ------------------------------------------------------------------------
Init ==
  /\ attempts = [a \in Attempts |-> IdleAttempt]
  /\ activeProcesses = [id \in RequestIds |-> None]
  /\ cancelCalls = 0
  /\ lastCancel = None
  /\ killFailures = 0
  /\ panel = OpenPanel("workflow")
  /\ call = NoCall

TheWorld == World(attempts, activeProcesses, killFailures)

\* Install a new world.
Becomes(w) ==
  /\ attempts' = w.a
  /\ activeProcesses' = w.r
  /\ killFailures' = w.k

\* A kill may be rejected only while the bound on rejected kills allows it.
KillOutcomes == IF killFailures < MaxKillFailures THEN BOOLEAN ELSE {TRUE}

\* The chat panel calls refineWorkflow or refineSubAgentFlow.
RefineStart(a, in) ==
  /\ attempts[a].stage = "idle"
  /\ \E mode \in in.modes, useSkills \in in.useSkills, withId \in BOOLEAN,
        history \in in.histories :
       attempts' = [attempts EXCEPT ![a].stage = "loading", ![a].mode = mode,
                                    ![a].useSkills = useSkills, ![a].withId = withId,
                                    ![a].conversationHistory = history,
                                    ![a].given = Some([currentWorkflow |-> BaseWorkflow,
                                                       conversationHistory |-> history])]
  /\ UNCHANGED <<activeProcesses, cancelCalls, lastCancel, killFailures, panel, call>>

\* The schema (and catalogue) loads complete; the orchestrator runs on to the
\* spawn of the subprocess or to an early return.
LoadDone(a, in) ==
  /\ attempts[a].stage = "loading"
  /\ \E schema \in in.schemas, scan \in in.scans, skills \in in.catalogues,
        spawnError \in SpawnErrors, ignores \in BOOLEAN :
       Becomes(AfterLoad([TheWorld EXCEPT !.a[a].schema = schema, !.a[a].scan = scan],
                         a, schema, scan, skills, spawnError, ignores))
  /\ UNCHANGED <<cancelCalls, lastCancel, panel, call>>

\* The subprocess exits by itself; 'exit' is delivered with its exit code.
ProcessExit(a, in) ==
  /\ attempts[a].proc = "running"
  /\ \E code \in {"0", "1"}, out \in in.outputs, validation \in in.validations :
       LET w == [TheWorld EXCEPT !.a[a].proc = "exited", !.a[a].stdout = out,
                                 !.a[a].exitCode = code, !.a[a].validation = validation]
       IN  Becomes(Settle(OnExit(w, a, code), a, validation))
  /\ UNCHANGED <<cancelCalls, lastCancel, panel, call>>

\* The subprocess dies of a signal; 'exit' is delivered with code null.
ProcessKilled(a) ==
  /\ attempts[a].proc = "running"
  /\ \/ "SIGKILL" \in attempts[a].sigs
     \/ "SIGTERM" \in attempts[a].sigs /\ ~attempts[a].ignoresTerm
  /\ LET w == [TheWorld EXCEPT !.a[a].proc = "exited", !.a[a].exitCode = "null"]
     IN  Becomes(Settle(OnExit(w, a, "null"), a, "valid"))
  /\ UNCHANGED <<cancelCalls, lastCancel, panel, call>>

\* The timeout timer of executeClaudeCodeCLI expires.
TimeoutFires(a) ==
  /\ attempts[a].timeout = "armed"
  /\ \E ok \in KillOutcomes :
       Becomes(Settle(OnTimeout(TheWorld, a, ok), a, "valid"))
  /\ UNCHANGED <<cancelCalls, lastCancel, panel, call>>

\* The 500 ms timer of a cancel expires.
GraceTimerFires(a) ==
  /\ attempts[a].grace = "armed"
  /\ \E ok \in KillOutcomes :
       Becomes(Settle(OnGraceTimer(TheWorld, a, ok), a, "valid"))
  /\ UNCHANGED <<cancelCalls, lastCancel, panel, call>>

\* History of the cancels issued while the attempt with that id is in flight.
NoteCancel(w, requestId, cancelled) ==
  LET p  == attempts[requestId]
      w1 == [w EXCEPT !.a[requestId].cancelled = @ \/ cancelled]
  IN  IF p.stage \in {"loading", "executing"} /\ p.withId /\ p.firstCancelStage = "none"
      THEN [w1 EXCEPT !.a[requestId].firstCancelRet = IF cancelled THEN "true" ELSE "false",
                      !.a[requestId].firstCancelStage = p.stage]
      ELSE w1

\* A caller cancels a request id.
Cancel(requestId) ==
  /\ cancelCalls < MaxCancels
  /\ \E ok \in KillOutcomes, fn \in {"cancelRefinement", "cancelGeneration"} :
       LET c == IF fn = "cancelRefinement"
                THEN cancelRefinement(TheWorld, requestId, ok)
                ELSE cancelGeneration(TheWorld, requestId, ok)
       IN  /\ Becomes(NoteCancel(Settle(c.w, requestId, "valid"), requestId, c.cancelled))
           /\ lastCancel' = Some([requestId |-> requestId, cancelled |-> c.cancelled])
  /\ cancelCalls' = cancelCalls + 1
  /\ UNCHANGED <<panel, call>>

\* One refinement, started with request id r1 or without an id, under every
\* input; r2 is an id no attempt was started with.
Next ==
  \/ RefineStart("r1", AllInputs)
  \/ LoadDone("r1", AllInputs)
  \/ ProcessExit("r1", AllInputs)
  \/ ProcessKilled("r1")
  \/ TimeoutFires("r1")
  \/ GraceTimerFires("r1")
  \/ \E id \in RequestIds : Cancel(id)

Spec == Init /\ [][Next]_vars

\* Two refinements side by side.
NextConcurrent ==
  \/ \E a \in Attempts : RefineStart(a, RunnerInputs)
  \/ \E a \in Attempts : LoadDone(a, RunnerInputs)
  \/ \E a \in Attempts : ProcessExit(a, RunnerInputs)
  \/ \E a \in Attempts : ProcessKilled(a)
  \/ \E a \in Attempts : TimeoutFires(a)
  \/ \E a \in Attempts : GraceTimerFires(a)
  \/ \E id \in RequestIds : Cancel(id)

SpecConcurrent == Init /\ [][NextConcurrent]_vars

\* The history of a panel whose last request failed: the user message and
\* the assistant message in its error state.
FailedHistory ==
  ConversationHistory(<<Message("ur0", "user", "m0", "ok"),
                        Message("air0", "assistant", "TIMEOUT", "error")>>, 0)

\* The history of a panel after one answered round trip.
AnsweredHistory ==
  ConversationHistory(<<Message("ur0", "user", "m0", "ok"),
                        Message("air0", "assistant", "clarification", "ok")>>, 1)

PanelHistories == {EmptyHistory, FailedHistory, AnsweredHistory}

\* The panel is open in one of its two modes, on a new conversation or on
\* one with an earlier request behind it; no request is in flight.
InitPanel ==
  /\ attempts = [a \in Attempts |-> IdleAttempt]
  /\ activeProcesses = [id \in RequestIds |-> None]
  /\ cancelCalls = 0
  /\ lastCancel = None
  /\ killFailures = 0
  /\ \E mode \in PanelModes, history \in PanelHistories :
       panel = [OpenPanel(mode) EXCEPT !.conversationHistory = history]
  /\ call = NoCall

\* The extension host starts the orchestrator for a request of the panel.
StartFromPanel(a, useSkills) ==
  LET request == The(panel'.pending)
  IN  attempts' = [attempts EXCEPT ![a].stage = "loading", ![a].mode = panel.mode,
                                   ![a].useSkills = useSkills, ![a].withId = TRUE,
                                   ![a].currentWorkflow = panel.live,
                                   ![a].conversationHistory = request.sent,
                                   ![a].given = Some([currentWorkflow |-> panel.live,
                                                      conversationHistory |-> request.sent])]

\* The user sends a message: handleSend runs up to its await, with the fresh
\* request id a.
PanelSend(a, in) ==
  /\ ~panel.isProcessing
  /\ attempts[a].stage = "idle"
  /\ panel' = handleSend(panel, "m" \o a, a)
  /\ \E useSkills \in in.useSkills : StartFromPanel(a, useSkills)
  /\ UNCHANGED <<activeProcesses, cancelCalls, lastCancel, killFailures, call>>

\* The user retries an assistant message: handleRetry runs up to its await
\* with the fresh request id a, or returns at once.
PanelRetry(a, in) ==
  /\ ~panel.isProcessing
  /\ attempts[a].stage = "idle"
  /\ \E i \in 1..Len(panel.conversationHistory.messages) :
       LET messageId == panel.conversationHistory.messages[i].id
       IN  /\ panel' = handleRetry(panel, messageId, a)
           /\ IF RetryReturns(panel, messageId)
              THEN UNCHANGED attempts
              ELSE \E useSkills \in in.useSkills : StartFromPanel(a, useSkills)
  /\ UNCHANGED <<activeProcesses, cancelCalls, lastCancel, killFailures, call>>

\* The request the panel awaits is the request of attempt a.
Awaits(a) == panel.pending # None /\ The(panel.pending).requestId = a

\* The result of the orchestrator reaches the panel: the awaited call
\* settles and the handler runs on.
PanelDeliver(a) ==
  /\ Awaits(a)
  /\ attempts[a].result # None
  /\ \E outcome \in ServiceOutcomes(The(attempts[a].result), The(panel.pending)) :
       panel' = AfterRefine(panel, outcome)
  /\ UNCHANGED <<attempts, activeProcesses, cancelCalls, lastCancel, killFailures, call>>

\* A cancel was issued for the awaited request: the awaited call is rejected
\* with CANCELLED.
PanelCancelled(a) ==
  /\ Awaits(a)
  /\ attempts[a].firstCancelStage # "none"
  /\ panel' = AfterRefine(panel, Thrown("CANCELLED"))
  /\ UNCHANGED <<attempts, activeProcesses, cancelCalls, lastCancel, killFailures, call>>

\* The chat panel on top of the orchestrator and the process runner: one
\* send or retry, made with request id r1, which the user may cancel.
NextPanel ==
  \/ PanelSend("r1", PanelInputs)
  \/ PanelRetry("r1", PanelInputs)
  \/ LoadDone("r1", PanelInputs)
  \/ ProcessExit("r1", PanelInputs)
  \/ ProcessKilled("r1")
  \/ TimeoutFires("r1")
  \/ GraceTimerFires("r1")
  \/ PanelDeliver("r1")
  \/ PanelCancelled("r1")
  \/ Cancel("r1")

SpecPanel == InitPanel /\ [][NextPanel]_vars

\* ------------------------------------------------------------------------
\* The resolver on its own: resolveSkillPaths called with every workflow and
\* catalogue of the bounded input sets
\* ------------------------------------------------------------------------
\* Longest node list and longest catalogue given to the resolver.
MaxResolverLen == 2

\* The sequences over S of length at most n.
SeqsUpTo(S, n) == UNION {[1..k -> S] : k \in 0..n}

\* A node with a data payload of its own.
NodeWith(id, type, name, scope, path, status) ==
  [id |-> id, type |-> type,
   data |-> [name |-> name, scope |-> scope, skillPath |-> path, validationStatus |-> status]]

\* Nodes of a parsed workflow: skill nodes with and without a path, and
\* nodes of other types, one of them with a payload that looks like a skill's.
ResolverNodes ==
  { Node("n1", "start"),
    NodeWith("p1", "prompt", "s1", "project", "/keep", "valid"),
    NodeWith("k1", "skill", "s1", "project", "/old", "valid"),
    NodeWith("k2", "skill", "s1", "personal", "", "valid"),
    NodeWith("k3", "skill", "s2", "project", "/old2", "valid") }

\* Catalogue entries: two scopes of one name, and a second entry for the same
\* name and scope whose own validation status is not valid.
ResolverSkills ==
  { Skill("s1", "personal", "/home/s1", "valid"),
    Skill("s1", "project", "/proj/s1", "valid"),
    Skill("s1", "project", "/gone/s1", "missing") }

ResolverWorkflows ==
  { [id |-> "wf1", nodes |-> nodes, connections |-> "conns"] :
      nodes \in SeqsUpTo(ResolverNodes, MaxResolverLen) }

InitResolver ==
  /\ attempts = [a \in Attempts |-> IdleAttempt]
  /\ activeProcesses = [id \in RequestIds |-> None]
  /\ cancelCalls = 0
  /\ lastCancel = None
  /\ killFailures = 0
  /\ panel = OpenPanel("workflow")
  /\ \E workflow \in ResolverWorkflows,
        availableSkills \in SeqsUpTo(ResolverSkills, MaxResolverLen) :
       call = [fn |-> "resolveSkillPaths", workflow |-> workflow,
               availableSkills |-> availableSkills, result |-> None]

\* resolveSkillPaths returns.
ResolveCall ==
  /\ call.fn = "resolveSkillPaths" /\ call.result = None
  /\ call' = [call EXCEPT !.result = Some(resolveSkillPathsIn(call.workflow, call.availableSkills))]
  /\ UNCHANGED <<attempts, activeProcesses, cancelCalls, lastCancel, killFailures, panel>>

NextResolver == ResolveCall

SpecResolver == InitResolver /\ [][NextResolver]_vars

\* ------------------------------------------------------------------------
\* The classifier and the parser on their own: isClarificationMessage and
\* parseClaudeCodeOutput called with every output of the bounded input set
\* ------------------------------------------------------------------------
\* Number of pieces an output is put together from.
MaxOutputPieces == 4

\* The pieces of an output: a line break, prose, clarification phrases, the
\* fences, and JSON documents.
OutputPieces ==
  { <<"n">>, <<"t">>, <<"c">>, <<"C">>, <<"c1">>, <<"c2">>, <<"[">>, <<"]">>,
    <<"Jwf">>, <<"Jwc">>, FencedInside, FencedInsideWithPhrase }

RECURSIVE Flatten(_)
Flatten(pieces) ==
  IF pieces = <<>> THEN <<>> ELSE Head(pieces) \o Flatten(Tail(pieces))

ClassifierOutputs == {Flatten(pieces) : pieces \in SeqsUpTo(OutputPieces, MaxOutputPieces)}

InitClassifier ==
  /\ attempts = [a \in Attempts |-> IdleAttempt]
  /\ activeProcesses = [id \in RequestIds |-> None]
  /\ cancelCalls = 0
  /\ lastCancel = None
  /\ killFailures = 0
  /\ panel = OpenPanel("workflow")
  /\ \E output \in ClassifierOutputs :
       call = [fn |-> "classify", output |-> output, result |-> None]

\* What the orchestrator of that mode returns when the subprocess exits with
\* code 0 and has written that output (skills off, the validator content).
RefinedFrom(mode, output) ==
  AfterCli([IdleAttempt EXCEPT !.mode = mode], CliSuccess(Trim(output)), <<>>, "valid").result

\* isClarificationMessage and parseClaudeCodeOutput return, and so do the
\* two orchestrators on that output.
ClassifyCall ==
  /\ call.fn = "classify" /\ call.result = None
  /\ call' = [call EXCEPT !.result =
                Some([isClarification |-> isClarificationMessage(call.output),
                      parsed |-> parseClaudeCodeOutput(call.output),
                      refined |-> [mode \in PanelModes |-> RefinedFrom(mode, call.output)]])]
  /\ UNCHANGED <<attempts, activeProcesses, cancelCalls, lastCancel, killFailures, panel>>

NextClassifier == ClassifyCall

SpecClassifier == InitClassifier /\ [][NextClassifier]_vars

\* ------------------------------------------------------------------------
\* Workflow diff engine: computeWorkflowDiff
\* ------------------------------------------------------------------------
\* A data payload is an object: its fields in the order they were set, each
\* a key with a value.
Field(key, value) == [key |-> key, value |-> value]

\* A node of the canvas (React Flow) or of a workflow.  The type "" stands
\* for a type that is undefined.
DiffNode(id, type, position, data) ==
  [id |-> id, type |-> type, position |-> position, data |-> data]

\* An edge of the canvas; a handle is optional (null or undefined).
Edge(source, sourceHandle, target, targetHandle) ==
  [source |-> source, sourceHandle |-> sourceHandle, target |-> target,
   targetHandle |-> targetHandle]

\* A connection of a workflow; a port may be absent from the object.
Connection(from, fromPort, to, toPort) ==
  [from |-> from, fromPort |-> fromPort, to |-> to, toPort |-> toPort]

RECURSIVE StringifyFields(_)
StringifyFields(data) ==
  IF data = <<>> THEN <<>>
  ELSE <<data[1].key, ":", data[1].value>>
       \o (IF Len(data) > 1 THEN <<",">> ELSE <<>>) \o StringifyFields(Tail(data))

\* JSON.stringify(node.data): the fields in the order of the object
Stringify(data) == <<"{">> \o StringifyFields(data) \o <<"}">>

\* data?.description || node.id
DescriptionOr(data, id) ==
  LET at == {i \in 1..Len(data) : data[i].key = "description"}
  IN  IF at = {} \/ data[CHOOSE i \in at : TRUE].value = "" THEN id
      ELSE data[CHOOSE i \in at : TRUE].value

\* getNodeName
getNodeName(node) == DescriptionOr(node.data, node.id)

\* `${x ?? ''}` for a handle of an edge
HandleText(handle) == IF handle = None THEN "" ELSE The(handle)

\* `${x}` for a port of a connection: an absent port reads undefined
PortText(port) == IF port = None THEN "undefined" ELSE The(port)

\* makeEdgeKey
makeEdgeKey(edge) ==
  edge.source \o ":" \o HandleText(edge.sourceHandle) \o ">"
    \o edge.target \o ":" \o HandleText(edge.targetHandle)

\* makeWorkflowEdgeKey
makeWorkflowEdgeKey(conn) ==
  conn.from \o ":" \o PortText(conn.fromPort) \o ">" \o conn.to \o ":" \o PortText(conn.toPort)

\* The keys of a Map filled by map.set(node.id, ...) over the list, in the
\* order of iteration: each id once, at the place of its first occurrence.
RECURSIVE MapKeys(_)
MapKeys(nodes) ==
  IF nodes = <<>> THEN <<>>
  ELSE LET front == SubSeq(nodes, 1, Len(nodes) - 1)
           last == nodes[Len(nodes)]
       IN  IF \E i \in 1..Len(front) : front[i].id = last.id
           THEN MapKeys(front)
           ELSE MapKeys(front) \o <<last.id>>

\* map.has(id)
MapHas(nodes, id) == \E i \in 1..Len(nodes) : nodes[i].id = id

\* map.get(id): the node that was set last under that id
MapGet(nodes, id) ==
  nodes[CHOOSE i \in 1..Len(nodes) :
          nodes[i].id = id /\ \A j \in (i + 1)..Len(nodes) : nodes[j].id # id]

\* An entry of addedNodes, removedNodes or modifiedNodes
Entry(id, name, type) == [id |-> id, name |-> name, type |-> type]

IncomingEntry(node) == Entry(node.id, DescriptionOr(node.data, node.id), node.type)

CurrentEntry(node) ==
  Entry(node.id, getNodeName(node), IF node.type = "" THEN "unknown" ELSE node.type)

\* Added nodes taken from the list of incoming nodes instead of the map: a
\* node id that is listed twice is added twice.
AddedNodesOverList(currentNodes, incomingNodes) ==
  LET chosen == SelectSeq(incomingNodes, LAMBDA node : ~MapHas(currentNodes, node.id))
  IN  [i \in 1..Len(chosen) |-> IncomingEntry(chosen[i])]

\* Added nodes: in incoming but not in current
AddedNodes(currentNodes, incomingNodes) ==
  LET ids == SelectSeq(MapKeys(incomingNodes), LAMBDA id : ~MapHas(currentNodes, id))
  IN  [i \in 1..Len(ids) |-> IncomingEntry(MapGet(incomingNodes, ids[i]))]

\* Removed nodes: in current but not in incoming
RemovedNodes(currentNodes, incomingNodes) ==
  LET ids == SelectSeq(MapKeys(currentNodes), LAMBDA id : ~MapHas(incomingNodes, id))
  IN  [i \in 1..Len(ids) |-> CurrentEntry(MapGet(currentNodes, ids[i]))]

\* Modified nodes: in both but data changed
ModifiedNodes(currentNodes, incomingNodes) ==
  LET ids == SelectSeq(MapKeys(incomingNodes),
                       LAMBDA id : /\ MapHas(currentNodes, id)
                                   /\ Stringify(MapGet(currentNodes, id).data)
                                        # Stringify(MapGet(incomingNodes, id).data))
  IN  [i \in 1..Len(ids) |-> IncomingEntry(MapGet(incomingNodes, ids[i]))]

\* new Set(currentEdges.map(makeEdgeKey))
EdgeKeys(edges) == {makeEdgeKey(edges[i]) : i \in 1..Len(edges)}

\* new Set(incomingWorkflow.connections.map(makeWorkflowEdgeKey))
ConnectionKeys(connections) == {makeWorkflowEdgeKey(connections[i]) : i \in 1..Len(connections)}

\* A canvas is taken for new whatever edges it has.
IsNewWorkflowIgnoringEdges(currentNodes, currentEdges) ==
  /\ Len(currentNodes) <= 2
  /\ \A i \in 1..Len(currentNodes) : currentNodes[i].type \in {"start", "end"}

\* isNewWorkflow: the canvas has only the default start and end nodes
IsNewWorkflow(currentNodes, currentEdges) ==
  /\ Len(currentNodes) <= 2
  /\ \A i \in 1..Len(currentNodes) : currentNodes[i].type \in {"start", "end"}
  /\ Len(currentEdges) = 0

\* computeWorkflowDiff
computeWorkflowDiff(currentNodes, currentEdges, currentName, incomingWorkflow) ==
  LET isNewWorkflow == IsNewWorkflow(currentNodes, currentEdges)
      nameChange ==
        IF currentName # incomingWorkflow.name
        THEN Some([from |-> currentName, to |-> incomingWorkflow.name])
        ELSE None
      addedNodes == AddedNodes(currentNodes, incomingWorkflow.nodes)
      removedNodes == RemovedNodes(currentNodes, incomingWorkflow.nodes)
      modifiedNodes == ModifiedNodes(currentNodes, incomingWorkflow.nodes)
      currentEdgeKeys == EdgeKeys(currentEdges)
      incomingEdgeKeys == ConnectionKeys(incomingWorkflow.connections)
      addedConnections == Cardinality(incomingEdgeKeys \ currentEdgeKeys)
      removedConnections == Cardinality(currentEdgeKeys \ incomingEdgeKeys)
  IN  [ nameChange         |-> nameChange,
        addedNodes         |-> addedNodes,
        removedNodes       |-> removedNodes,
        modifiedNodes      |-> modifiedNodes,
        addedConnections   |-> addedConnections,
        removedConnections |-> removedConnections,
        totalChanges       |-> (IF nameChange # None THEN 1 ELSE 0) + Len(addedNodes)
                                 + Len(removedNodes) + Len(modifiedNodes)
                                 + addedConnections + removedConnections,
        isNewWorkflow      |-> isNewWorkflow ]

\* ------------------------------------------------------------------------
\* The diff engine on its own: computeWorkflowDiff called with every canvas
\* and every proposed workflow of the bounded input set
\* ------------------------------------------------------------------------
\* Number of nodes of a proposed workflow; the canvas holds up to one more.
MaxDiffNodes == 2

EmptyData == <<>>
DataA == <<Field("description", "A"), Field("prompt", "x")>>
DataAEdited == <<Field("description", "A"), Field("prompt", "y")>>
DataASwapped == <<Field("prompt", "x"), Field("description", "A")>>

\* Nodes on the canvas: the start and end nodes of a fresh canvas and a
\* prompt node.
CanvasNodes ==
  { DiffNode("s", "start", "p0", EmptyData),
    DiffNode("e", "end", "p1", EmptyData),
    DiffNode("a", "prompt", "p2", DataA) }

\* Nodes of a proposed workflow: the canvas's nodes as they are, the prompt
\* node with another field value, with its fields in another order, with
\* another type and position, and a node the canvas does not have.
ProposedNodes ==
  { DiffNode("s", "start", "p0", EmptyData),
    DiffNode("a", "prompt", "p2", DataA),
    DiffNode("a", "prompt", "p2", DataAEdited),
    DiffNode("a", "prompt", "p2", DataASwapped),
    DiffNode("a", "skill", "p3", DataA),
    DiffNode("b", "prompt", "p2", EmptyData) }

\* Edge lists of the canvas: no handle, a named handle.
CanvasEdgeLists ==
  { <<>>,
    <<Edge("s", None, "a", None)>>,
    <<Edge("s", Some("out"), "a", Some("in"))>> }

\* Connection lists of a proposed workflow: ports absent, empty, named,
\* and the same connection twice.
ProposedConnectionLists ==
  { <<>>,
    <<Connection("s", None, "a", None)>>,
    <<Connection("s", Some(""), "a", Some(""))>>,
    <<Connection("s", Some("out"), "a", Some("in"))>>,
    <<Connection("s", Some("out"), "a", Some("in")),
      Connection("s", Some("out"), "a", Some("in"))>> }

WorkflowNames == {"W1", "W2"}

InitDiff ==
  /\ attempts = [a \in Attempts |-> IdleAttempt]
  /\ activeProcesses = [id \in RequestIds |-> None]
  /\ cancelCalls = 0
  /\ lastCancel = None
  /\ killFailures = 0
  /\ panel = OpenPanel("workflow")
  /\ \E currentNodes \in SeqsUpTo(CanvasNodes, MaxDiffNodes + 1),
        currentEdges \in CanvasEdgeLists,
        name \in WorkflowNames,
        nodes \in SeqsUpTo(ProposedNodes, MaxDiffNodes),
        connections \in ProposedConnectionLists :
       call = [fn |-> "computeWorkflowDiff",
               currentNodes |-> currentNodes,
               currentEdges |-> currentEdges,
               currentName |-> "W1",
               incomingWorkflow |-> [name |-> name, nodes |-> nodes,
                                     connections |-> connections],
               result |-> None]

DiffCall ==
  /\ call.fn = "computeWorkflowDiff" /\ call.result = None
  /\ call' = [call EXCEPT !.result =
                Some(computeWorkflowDiff(call.currentNodes, call.currentEdges,
                                         call.currentName, call.incomingWorkflow))]
  /\ UNCHANGED <<attempts, activeProcesses, cancelCalls, lastCancel, killFailures, panel>>

NextDiff == DiffCall

SpecDiff == InitDiff /\ [][NextDiff]_vars

\* ------------------------------------------------------------------------
\* Run for Antigravity: handleRunForAntigravity and startAntigravityTask
\* ------------------------------------------------------------------------
\* A message posted to the webview.
Posted(type, errorCode, antigravityOpened) ==
  [type |-> type, errorCode |-> errorCode, antigravityOpened |-> antigravityOpened]

\* startAntigravityTask: "returns", with the value, or "throws" (activate()
\* rejected).  env tells what the editor does: whether the extension is
\* found and active, and whether activate() and the two commands succeed.
startAntigravityTask(env) ==
  IF ~env.installed THEN [how |-> "returns", value |-> FALSE]
  ELSE IF ~env.isActive /\ env.activate = "throws" THEN [how |-> "throws", value |-> FALSE]
  ELSE IF env.chatOpen = "ok" THEN [how |-> "returns", value |-> TRUE]
  ELSE IF env.sendPrompt = "ok" THEN [how |-> "returns", value |-> TRUE]
  ELSE [how |-> "returns", value |-> FALSE]

\* handleRunForAntigravity: the messages it posts to the webview, in order.
handleRunForAntigravity(env) ==
  LET failed(code) == <<Posted("RUN_FOR_ANTIGRAVITY_FAILED", code, FALSE)>>
      cancelled == <<Posted("RUN_FOR_ANTIGRAVITY_CANCELLED", "", FALSE)>>
      task == startAntigravityTask(env)
  IN  IF env.nonStandardSkills /\ env.normalize = "cancelled" THEN cancelled
      ELSE IF env.nonStandardSkills /\ env.normalize = "failed" THEN failed("UNKNOWN_ERROR")
      ELSE IF env.existingSkill = "throws" THEN failed("UNKNOWN_ERROR")
      ELSE IF env.existingSkill = "exists" /\ env.answer # "Overwrite" THEN cancelled
      ELSE IF env.export = "throws" THEN failed("UNKNOWN_ERROR")
      ELSE IF env.export = "fail" THEN failed("EXPORT_FAILED")
      ELSE IF ~env.installed THEN failed("ANTIGRAVITY_NOT_INSTALLED")
      ELSE IF task.how = "throws" THEN failed("UNKNOWN_ERROR")
      ELSE <<Posted("RUN_FOR_ANTIGRAVITY_SUCCESS", "", TRUE)>>   \* the value is not read

\* What the editor, the file system and the user may do during one run.
RunEnvironments ==
  [ nonStandardSkills : BOOLEAN,
    normalize         : {"ok", "cancelled", "failed"},
    existingSkill     : {"none", "exists", "throws"},
    answer            : {"Overwrite", "Cancel", "dismissed"},
    export            : {"ok", "fail", "throws"},
    installed         : BOOLEAN,
    isActive          : BOOLEAN,
    activate          : {"ok", "throws"},
    chatOpen          : {"ok", "throws"},
    sendPrompt        : {"ok", "throws"} ]

InitRun ==
  /\ attempts = [a \in Attempts |-> IdleAttempt]
  /\ activeProcesses = [id \in RequestIds |-> None]
  /\ cancelCalls = 0
  /\ lastCancel = None
  /\ killFailures = 0
  /\ panel = OpenPanel("workflow")
  /\ \E env \in RunEnvironments :
       call = [fn |-> "handleRunForAntigravity", env |-> env, result |-> None]

RunCall ==
  /\ call.fn = "handleRunForAntigravity" /\ call.result = None
  /\ call' = [call EXCEPT !.result =
                Some([posted |-> handleRunForAntigravity(call.env),
                      task |-> startAntigravityTask(call.env)])]
  /\ UNCHANGED <<attempts, activeProcesses, cancelCalls, lastCancel, killFailures, panel>>

NextRun == RunCall

SpecRun == InitRun /\ [][NextRun]_vars

\* The event loop runs every timer callback that is due, and the operating
\* system ends a subprocess that received a signal it does not ignore.
FairSpec ==
  /\ Spec
  /\ WF_vars(TimeoutFires("r1"))
  /\ WF_vars(GraceTimerFires("r1"))
  /\ WF_vars(ProcessKilled("r1"))

\* One call of the process runner under the same scheduling, with what the
\* runner does not look at fixed.
NextRunner ==
  \/ RefineStart("r1", RunnerInputs)
  \/ LoadDone("r1", RunnerInputs)
  \/ ProcessExit("r1", RunnerInputs)
  \/ ProcessKilled("r1")
  \/ TimeoutFires("r1")
  \/ GraceTimerFires("r1")
  \/ \E id \in RequestIds : Cancel(id)

FairSpecRunner ==
  /\ Init /\ [][NextRunner]_vars
  /\ WF_vars(TimeoutFires("r1"))
  /\ WF_vars(GraceTimerFires("r1"))
  /\ WF_vars(ProcessKilled("r1"))

\* ------------------------------------------------------------------------
\* Properties
\* ------------------------------------------------------------------------
Registered(a) == \E id \in RequestIds :
  activeProcesses[id] # None /\ The(activeProcesses[id]).process = a

CliCode(a) ==
  IF attempts[a].cli = None THEN "none"
  ELSE IF The(attempts[a].cli).success THEN "success"
  ELSE The(The(attempts[a].cli).error)

\* C1: among the timeout timer, the 'exit' handler and the 'error' handler of
\* one call of executeClaudeCodeCLI, the first to fire resolves the call and
\* every later one is a no-op: no attempt takes a result-producing branch
\* (a call of resolve) more than once.
C1_FirstTransitionWins ==
  \A a \in Attempts :
    /\ attempts[a].resolveCalls <= 1
    /\ attempts[a].first # "none" => attempts[a].cli # None

\* C2: once an attempt has reached a terminal transition (exit, error,
\* timeout, or a cancel that found it), and in particular once its call has
\* resolved, the registry holds no entry for it.
C2_NoEntryAfterTerminal ==
  \A a \in Attempts :
    (attempts[a].first # "none" \/ attempts[a].cancelled \/ attempts[a].cli # None)
      => ~Registered(a)

\* C2 witness: an attempt started with an id has timed out and the registry
\* has no entry for it.
C2_Witness ==
  \E a \in Attempts :
    /\ attempts[a].withId /\ attempts[a].first = "timeout"
    /\ CliCode(a) = "TIMEOUT" /\ activeProcesses[a] = None

\* C3 as stated: an id is in the registry exactly when the attempt started
\* with it has spawned its subprocess and its call has not resolved.
C3_RegistryIffRunning ==
  \A a \in Attempts :
    activeProcesses[a] # None
      <=> (attempts[a].withId /\ attempts[a].proc # "none" /\ attempts[a].cli = None)

\* C3 amended: an id is in the registry exactly when the attempt started with
\* it has spawned its subprocess, its call has not resolved and no cancel has
\* found it.
C3_RegistryIffRunningUncancelled ==
  \A a \in Attempts :
    activeProcesses[a] # None
      <=> (attempts[a].withId /\ attempts[a].proc # "none" /\ attempts[a].cli = None
           /\ ~attempts[a].cancelled)

\* C3 witness: a cancelled attempt whose subprocess still runs and whose call
\* has not resolved is no longer in the registry, next to a registered one.
C3_Witness ==
  \E a, b \in Attempts :
    /\ attempts[a].cancelled /\ attempts[a].proc = "running" /\ attempts[a].cli = None
    /\ activeProcesses[a] = None
    /\ activeProcesses[b] # None /\ attempts[b].proc = "running"

\* This step is a cancel call for id.
IsCancelOf(id) ==
  /\ cancelCalls' = cancelCalls + 1
  /\ The(lastCancel').requestId = id

\* C4: a cancel for an id that is not in the registry returns
\* {cancelled: false}, sends no signal, schedules no timer and leaves the
\* registry unchanged; so does a cancel after the run resolved with TIMEOUT,
\* and a cancel that follows a successful cancel of the same id.
C4_CancelAbsentIsNoOp ==
  [][\A id \in RequestIds :
       IsCancelOf(id) =>
         /\ activeProcesses[id] = None =>
              /\ ~The(lastCancel').cancelled
              /\ activeProcesses' = activeProcesses
              /\ \A a \in Attempts :
                   /\ attempts'[a].sigs = attempts[a].sigs
                   /\ attempts'[a].grace = attempts[a].grace
                   /\ attempts'[a].killed = attempts[a].killed
                   /\ attempts'[a].cli = attempts[a].cli
         /\ CliCode(id) = "TIMEOUT" => ~The(lastCancel').cancelled
         /\ lastCancel = Some([requestId |-> id, cancelled |-> TRUE])
              => ~The(lastCancel').cancelled]_vars

\* C4 witness: a cancel of an id whose run had resolved with TIMEOUT has
\* returned {cancelled: false}.
C4_Witness ==
  /\ lastCancel = Some([requestId |-> "r1", cancelled |-> FALSE])
  /\ attempts["r1"].withId
  /\ CliCode("r1") = "TIMEOUT"

\* C5: a cancel that found the attempt has removed its registry entry and
\* sent SIGTERM at once, and when the grace timer fires while the subprocess
\* is still running it sends SIGKILL (no kill being rejected).
C5_CancelForceKillsAfterGrace ==
  \A a \in Attempts :
    (attempts[a].cancelled /\ killFailures = 0) =>
      /\ ~Registered(a)
      /\ "SIGTERM" \in attempts[a].sigs
      /\ (attempts[a].grace = "fired" /\ attempts[a].graceAlive)
           => "SIGKILL" \in attempts[a].sigs

\* C6: when the timer expires first the call resolves with TIMEOUT, and the
\* subprocess of a timed-out attempt is eventually no longer running.
C6_TimeoutTerminatesProcess ==
  \A a \in Attempts :
    /\ [](attempts[a].first = "timeout" => CliCode(a) = "TIMEOUT")
    /\ (attempts[a].timedOut ~> attempts[a].proc # "running")

ResultIsSuccess(a) == attempts[a].result # None /\ The(attempts[a].result).success

ResultCode(a) ==
  IF attempts[a].result = None THEN "none"
  ELSE IF The(attempts[a].result).error = None THEN "success"
  ELSE The(The(attempts[a].result).error).code

\* C7: a cancel issued for the id of a request that has been started and has
\* not reached a terminal state returns {cancelled: true}, and the request
\* does not afterwards return a success result.
C7_CancelInFlightTakesEffect ==
  \A a \in Attempts :
    attempts[a].firstCancelStage # "none" =>
      /\ attempts[a].firstCancelRet = "true"
      /\ ~ResultIsSuccess(a)

\* C8: an attempt whose subprocess was terminated by a cancel of its id (it
\* died of the signal, before any timeout) returns error code CANCELLED.
C8_CancelledSurfacesAsCancelled ==
  \A a \in Attempts :
    (attempts[a].cancelled /\ attempts[a].exitCode = "null" /\ ~attempts[a].timedOut
       /\ attempts[a].result # None)
      => ResultCode(a) = "CANCELLED"

\* out is s without its leading and trailing white space.
IsTrimmed(out, s) ==
  /\ out = <<>> \/ (~IsSpace(out[1]) /\ ~IsSpace(out[Len(out)]))
  /\ \E i \in 0..Len(s) :
       /\ i + Len(out) <= Len(s)
       /\ \A k \in 1..Len(out) : s[i + k] = out[k]
       /\ \A k \in 1..i : IsSpace(s[k])
       /\ \A k \in (i + Len(out) + 1)..Len(s) : IsSpace(s[k])

\* C9: executeClaudeCodeCLI resolves with success and the trimmed stdout iff
\* 'exit' fired first with code 0, with COMMAND_NOT_FOUND iff an ENOENT
\* 'error' fired first, with UNKNOWN_ERROR iff another 'error' or a non-zero
\* exit fired first, with TIMEOUT iff the timer fired first, and with nothing
\* else.
C9_CliOutcomeByFirstEvent ==
  \A a \in Attempts :
    /\ attempts[a].cli = None <=> attempts[a].first = "none"
    /\ attempts[a].cli # None =>
         LET r == The(attempts[a].cli)
         IN  /\ CliCode(a) \in {"success", "COMMAND_NOT_FOUND", "UNKNOWN_ERROR", "TIMEOUT"}
             /\ CliCode(a) = "success" <=> attempts[a].first = "exit0"
             /\ CliCode(a) = "COMMAND_NOT_FOUND" <=> attempts[a].first = "errorENOENT"
             /\ CliCode(a) = "UNKNOWN_ERROR" <=> attempts[a].first \in {"errorOther", "exitNonZero"}
             /\ CliCode(a) = "TIMEOUT" <=> attempts[a].first = "timeout"
             /\ r.success => /\ r.output # None /\ r.error = None
                             /\ IsTrimmed(The(r.output), attempts[a].stdout)
             /\ ~r.success => r.output = None /\ r.error # None

\* C9 witness: an 'error' resolved the call with UNKNOWN_ERROR and the
\* subprocess later exited with code 0 and output.
C9_Witness ==
  \E a \in Attempts :
    /\ attempts[a].first = "errorOther" /\ CliCode(a) = "UNKNOWN_ERROR"
    /\ attempts[a].exitCode = "0" /\ attempts[a].stdout = <<" ", "Jwf", "n">>

PublicErrorCodes ==
  {"COMMAND_NOT_FOUND", "TIMEOUT", "PARSE_ERROR", "VALIDATION_ERROR", "PROHIBITED_NODE_TYPE",
   "CANCELLED", "UNKNOWN_ERROR"}

\* C10: every result of refineWorkflow and refineSubAgentFlow is exactly one
\* of: success with a workflow, success with a clarification message, failure
\* with an error whose code is in the public taxonomy.
C10_ResultIsTaggedUnion ==
  \A a \in Attempts :
    attempts[a].result # None =>
      LET r == The(attempts[a].result)
      IN  \/ /\ r.success /\ r.refinedWorkflow # None
             /\ r.clarificationMessage = None /\ r.error = None
          \/ /\ r.success /\ r.clarificationMessage # None
             /\ r.refinedWorkflow = None /\ r.error = None
          \/ /\ ~r.success /\ r.error # None /\ The(r.error).code \in PublicErrorCodes
             /\ r.refinedWorkflow = None /\ r.clarificationMessage = None

\* C10 witness: the subprocess exited with code 0 and blank output, and the
\* orchestrator returned the fallback error.
C10_Witness ==
  \E a \in Attempts :
    /\ attempts[a].first = "exit0" /\ attempts[a].stdout = <<" ">>
    /\ ResultCode(a) = "UNKNOWN_ERROR"

\* ------------------------------------------------------------------------
\* The pipeline of one attempt, read off its inputs
\* ------------------------------------------------------------------------
\* The output the orchestrator classifies: set when the call of
\* executeClaudeCodeCLI resolved with success and a non-empty output.
ClassifiedOutput(a) ==
  IF CliCode(a) = "success" /\ The(The(attempts[a].cli).output) # <<>>
  THEN The(attempts[a].cli).output
  ELSE None

\* The orchestrator of attempt a went on to parse its output.
Parses(a) ==
  /\ ClassifiedOutput(a) # None
  /\ ~isClarificationMessage(The(ClassifiedOutput(a)))

\* JSON.parse succeeded on the output of attempt a.
ParsedOk(a) == Parses(a) /\ parseClaudeCodeOutput(The(ClassifiedOutput(a))) # None

ParsedValue(a) == The(parseClaudeCodeOutput(The(ClassifiedOutput(a))))

\* The parsed value has every field its mode requires.
HasRequiredFields(a) ==
  /\ ParsedOk(a) /\ ParsedValue(a).truthy
  /\ ParsedValue(a).nodes # None /\ ParsedValue(a).connections # None
  /\ attempts[a].mode = "workflow" => ParsedValue(a).id # None

\* Reading the nodes of the parsed value throws a TypeError.
NodesThrow(a) ==
  \/ ~The(ParsedValue(a).nodes).isArray
  \/ HasNullNode(The(ParsedValue(a).nodes).items)

\* Some collaborator or step of attempt a threw inside the try block.
ThrewInside(a) ==
  LET p == attempts[a]
  IN  \/ p.schema = "throws"
      \/ p.useSkills /\ p.scan = "throws"
      \/ /\ HasRequiredFields(a)
         /\ \/ p.mode = "subAgentFlow" /\ NodesThrow(a)
            \/ p.mode = "workflow" /\ p.useSkills /\ NodesThrow(a)
            \/ p.mode = "workflow" /\ p.validation = "throws"

\* C11: refineWorkflow and refineSubAgentFlow never throw or reject: an
\* attempt that ended has returned a value of the result type, whatever the
\* schema loader, the catalogue scanner, the subprocess, the parser, the
\* resolver and the validator did and whatever the parsed value is, and an
\* exception thrown on the way is returned as UNKNOWN_ERROR.
C11_NeverThrows ==
  \A a \in Attempts :
    /\ attempts[a].stage = "done" <=> attempts[a].result # None
    /\ attempts[a].result # None =>
         LET r == The(attempts[a].result)
         IN  /\ r.success \in BOOLEAN
             /\ r.success <=> r.error = None
             /\ r.error # None => The(r.error).code \in PublicErrorCodes
             /\ ThrewInside(a) => ResultCode(a) = "UNKNOWN_ERROR"

\* C11 witness: the validator threw on a parsed workflow whose skill nodes
\* had been resolved, and the attempt returned UNKNOWN_ERROR.
C11_Witness ==
  \E a \in Attempts :
    /\ attempts[a].mode = "workflow" /\ attempts[a].useSkills
    /\ attempts[a].validation = "throws" /\ HasRequiredFields(a) /\ ~NodesThrow(a)
    /\ ResultCode(a) = "UNKNOWN_ERROR"

\* Loading the context of attempt a failed.
LoadFailed(a) ==
  \/ attempts[a].schema \in {"fail", "throws"}
  \/ attempts[a].useSkills /\ attempts[a].scan = "throws"

\* C16: when loading the schema fails, or with skills enabled loading the
\* skill catalogue fails, the request ends with UNKNOWN_ERROR, no subprocess
\* is spawned and no timer armed for it, and the registry never holds an
\* entry for its id.
C16_LoadFailureSpawnsNothing ==
  \A a \in Attempts :
    LoadFailed(a) =>
      /\ attempts[a].stage = "done" /\ ResultCode(a) = "UNKNOWN_ERROR"
      /\ attempts[a].proc = "none" /\ attempts[a].timeout = "none"
      /\ attempts[a].cli = None
      /\ ~Registered(a) /\ activeProcesses[a] = None

\* C16 witness: the schema was loaded, the catalogue scan threw, and the
\* attempt started with an id ended with UNKNOWN_ERROR without a subprocess.
C16_Witness ==
  \E a \in Attempts :
    /\ attempts[a].withId /\ attempts[a].useSkills
    /\ attempts[a].schema = "ok" /\ attempts[a].scan = "throws"
    /\ ResultCode(a) = "UNKNOWN_ERROR" /\ attempts[a].proc = "none"

\* C17 as stated: whenever the subprocess exited with code 0 and its output
\* is not a clarification and cannot be parsed as JSON, the request ends with
\* PARSE_ERROR.
C17_UnparsableIsParseError ==
  \A a \in Attempts :
    (/\ attempts[a].exitCode = "0" /\ attempts[a].result # None
     /\ ~isClarificationMessage(attempts[a].stdout)
     /\ parseClaudeCodeOutput(attempts[a].stdout) = None)
      => ResultCode(a) = "PARSE_ERROR"

\* C17 amended: whenever the exit with code 0 was the first event of the run
\* and the output has a character that is not white space, is not a
\* clarification and cannot be parsed as JSON (from the fenced block when
\* there is one, otherwise from the whole trimmed output), the request ends
\* with PARSE_ERROR; the parser returned its failure value, nothing was
\* thrown.
C17_NonEmptyUnparsableIsParseError ==
  \A a \in Attempts :
    (/\ attempts[a].first = "exit0" /\ Trim(attempts[a].stdout) # <<>>
     /\ ~isClarificationMessage(attempts[a].stdout)
     /\ parseClaudeCodeOutput(attempts[a].stdout) = None)
      => /\ attempts[a].stage = "done" /\ ResultCode(a) = "PARSE_ERROR"
         /\ Parses(a) /\ ~ParsedOk(a)

\* C17 witness: a fenced block that holds no valid JSON ended a workflow
\* refinement with PARSE_ERROR.
C17_Witness ==
  \E a \in Attempts :
    /\ attempts[a].first = "exit0" /\ attempts[a].stdout = <<"[", "X", "]">>
    /\ attempts[a].mode = "workflow" /\ ResultCode(a) = "PARSE_ERROR"

\* C18: after a successful parse, workflow mode returns PARSE_ERROR whenever
\* the parsed value lacks a top-level id, nodes or connections, nestedFlow
\* mode whenever it lacks nodes or connections; neither returns success for
\* such a value.
C18_MissingFieldIsParseError ==
  \A a \in Attempts :
    (/\ ParsedOk(a)
     /\ \/ ParsedValue(a).nodes = None
        \/ ParsedValue(a).connections = None
        \/ attempts[a].mode = "workflow" /\ ParsedValue(a).id = None)
      => /\ attempts[a].stage = "done" /\ ResultCode(a) = "PARSE_ERROR"
         /\ ~ResultIsSuccess(a)

\* C18 witness: a parsed object with nodes and connections and no id ended a
\* workflow refinement with PARSE_ERROR.
C18_Witness ==
  \E a \in Attempts :
    /\ attempts[a].mode = "workflow" /\ attempts[a].stdout = <<"Jin">>
    /\ ParsedOk(a) /\ ParsedValue(a).id = None /\ ParsedValue(a).nodes # None
    /\ ResultCode(a) = "PARSE_ERROR"

\* The parsed value of attempt a is a nestedFlow fragment: nodes (an array of
\* nodes) and connections.
IsFragment(a) ==
  /\ attempts[a].mode = "subAgentFlow" /\ HasRequiredFields(a) /\ ~NodesThrow(a)

FragmentNodes(a) == The(ParsedValue(a).nodes).items

Offenders(a) ==
  {i \in 1..Len(FragmentNodes(a)) :
     FragmentNodes(a)[i].type \in {"subAgent", "subAgentFlow", "askUserQuestion"}}

\* C19: in nestedFlow mode a parsed fragment with at least one node of type
\* subAgent, subAgentFlow or askUserQuestion yields PROHIBITED_NODE_TYPE
\* whose details list every offending node (and no other), whatever the
\* number of nodes, over the cap included; it never yields success.
C19_ProhibitedAlwaysRejected ==
  \A a \in Attempts :
    (IsFragment(a) /\ Offenders(a) # {}) =>
      /\ attempts[a].stage = "done" /\ ResultCode(a) = "PROHIBITED_NODE_TYPE"
      /\ ~ResultIsSuccess(a)
      /\ LET details == The(The(attempts[a].result).error).details
         IN  /\ Len(details) = Cardinality(Offenders(a))
             /\ \A i \in Offenders(a) :
                  \E k \in 1..Len(details) :
                    details[k] = <<FragmentNodes(a)[i].type, FragmentNodes(a)[i].id>>

\* C19 witness: a fragment of more than 30 nodes, two of them prohibited, was
\* rejected with PROHIBITED_NODE_TYPE.
C19_Witness ==
  \E a \in Attempts :
    /\ IsFragment(a) /\ Len(FragmentNodes(a)) > 30 /\ Cardinality(Offenders(a)) = 2
    /\ ResultCode(a) = "PROHIBITED_NODE_TYPE"

\* C20: in nestedFlow mode a parsed fragment with nodes and connections and
\* no prohibited node yields VALIDATION_ERROR exactly when it has more than
\* 30 nodes; a fragment of exactly 30 nodes is accepted.
C20_CapIsThirty ==
  \A a \in Attempts :
    (IsFragment(a) /\ Offenders(a) = {}) =>
      /\ attempts[a].stage = "done"
      /\ ResultCode(a) = "VALIDATION_ERROR" <=> Len(FragmentNodes(a)) > 30
      /\ Len(FragmentNodes(a)) <= 30 => ResultIsSuccess(a)

\* C20 witness: a fragment of exactly 30 nodes was returned as a success.
C20_Witness ==
  \E a \in Attempts :
    /\ IsFragment(a) /\ Len(FragmentNodes(a)) = 30 /\ Offenders(a) = {}
    /\ ResultIsSuccess(a)
    /\ Len(The(The(attempts[a].result).refinedWorkflow).nodes) = 30

\* C12: when refineWorkflow or refineSubAgentFlow ends in an error, the
\* workflow (or fragment) and the conversation history the caller passed are
\* as the caller passed them, the catalogue is as the scanner returned it, and
\* the registry holds no entry for the id of the request.
C12_ErrorLeavesCallerStateUnchanged ==
  \A a \in Attempts :
    (attempts[a].result # None /\ ~The(attempts[a].result).success) =>
      /\ attempts[a].currentWorkflow = The(attempts[a].given).currentWorkflow
      /\ attempts[a].conversationHistory = The(attempts[a].given).conversationHistory
      /\ attempts[a].scanned = attempts[a].availableSkills
      /\ activeProcesses[a] = None /\ ~Registered(a)

\* C12 witness: a request made with a history longer than the prompt window
\* and with a catalogue ended in VALIDATION_ERROR after its skill nodes had
\* been resolved.
C12_Witness ==
  \E a \in Attempts :
    /\ attempts[a].withId /\ attempts[a].useSkills /\ attempts[a].scanned # <<>>
    /\ Len(The(attempts[a].given).conversationHistory.messages) > 6
    /\ Len(attempts[a].recentMessages) = 6
    /\ attempts[a].stdout = <<"[", "n", "Jsk", "n", "]">>
    /\ ResultCode(a) = "VALIDATION_ERROR"

\* ------------------------------------------------------------------------
\* Properties of the chat panel
\* ------------------------------------------------------------------------
\* This step settles the request the panel awaits.
SettlesRequest == panel.pending # None /\ panel'.pending = None

\* C13: in the chat panel, for every send and every retry, the live workflow
\* (or nested flow) of the workflow store is replaced only in the step that
\* settles the request with a result of type success; a clarification, an
\* error of any kind, a timeout and a cancellation leave the live nodes and
\* connections as they were when the request began.
C13_LiveReplacedOnlyOnSuccess ==
  [][/\ panel'.live # panel.live => (SettlesRequest /\ panel'.lastOutcome = "success")
     /\ (SettlesRequest /\ panel'.lastOutcome # "success")
          => panel'.live = The(panel.atRequest).live]_vars

\* C13 witness: a retry ended with TIMEOUT and the live workflow is the one
\* the retry began with.
C13_Witness ==
  /\ panel.atRequest # None /\ The(panel.atRequest).kind = "retry"
  /\ panel.pending = None /\ panel.lastOutcome = "TIMEOUT"
  /\ panel.live = The(panel.atRequest).live

\* C14: a workflow proposed by a refinement is committed to the live graph
\* only after a diff summary between the baseline and the proposal has been
\* computed and the user has accepted it; a rejected or dismissed diff leaves
\* the live graph unchanged.
C14_CommitOnlyAfterAcceptedDiff ==
  [][panel'.live # panel.live => (panel.diffSummary # None /\ panel.diffAccepted)]_vars

SUBAGENTFLOW_ALLOWED_NODE_TYPES == {"start", "end", "prompt", "ifElse", "switch", "skill", "mcp"}

CountOfType(nodes, type) == Cardinality({i \in 1..Len(nodes) : nodes[i].type = type})

\* The invariants of a NestedFlow.
IsNestedFlow(nodes) ==
  /\ Len(nodes) <= SUBAGENTFLOW_MAX_NODES
  /\ CountOfType(nodes, "start") = 1
  /\ CountOfType(nodes, "end") >= 1
  /\ \A i \in 1..Len(nodes) : nodes[i].type \in SUBAGENTFLOW_ALLOWED_NODE_TYPES

\* C21: every fragment that refineSubAgentFlow returns as a success has at
\* most 30 nodes, exactly one start node, at least one end node, and only
\* nodes whose type is one of start, end, prompt, ifElse, switch, skill, mcp.
C21_SuccessIsNestedFlow ==
  \A a \in Attempts :
    (attempts[a].mode = "subAgentFlow" /\ ResultIsSuccess(a)
       /\ The(attempts[a].result).refinedWorkflow # None)
      => IsNestedFlow(The(The(attempts[a].result).refinedWorkflow).nodes)

\* refineWorkflow of attempt a got as far as the call of the validator.
ReachedValidator(a) ==
  /\ attempts[a].mode = "workflow"
  /\ HasRequiredFields(a)
  /\ ~(attempts[a].useSkills /\ NodesThrow(a))

\* The parsed workflow of attempt a with its skill references resolved
\* against the catalogue of the attempt (as parsed when skills are off).
ResolvedParsed(a) ==
  LET v == ParsedValue(a)
  IN  [id |-> The(v.id),
       nodes |-> IF attempts[a].useSkills
                 THEN resolveSkillPaths(The(v.nodes).items, attempts[a].availableSkills)
                 ELSE The(v.nodes).items,
       connections |-> The(v.connections)]

\* C22: in workflow mode the validator is called with the workflow whose
\* skill references have been resolved; refineWorkflow returns success only
\* if the validator reported valid, and then returns the validated workflow;
\* when the validator reports errors the result is VALIDATION_ERROR and its
\* details are the messages of the errors joined with "; ".
C22_ValidatedAfterResolution ==
  \A a \in Attempts :
    (attempts[a].mode = "workflow" /\ attempts[a].result # None) =>
      LET p == attempts[a]
          r == The(p.result)
      IN  /\ ReachedValidator(a) <=> p.validated # None
          /\ ReachedValidator(a) => The(p.validated) = ResolvedParsed(a)
          /\ r.refinedWorkflow # None =>
               /\ ReachedValidator(a) /\ p.validation = "valid"
               /\ The(r.refinedWorkflow) = The(p.validated)
          /\ (ReachedValidator(a) /\ p.validation = "valid") => r.refinedWorkflow # None
          /\ (ReachedValidator(a) /\ p.validation = "invalid") =>
               /\ ResultCode(a) = "VALIDATION_ERROR"
               /\ The(r.error).details = <<"e1", "; ", "e2">>

\* C22 witness: with skills on, a workflow with a skill node was resolved
\* against the catalogue, the validator rejected it and the attempt returned
\* VALIDATION_ERROR.
C22_Witness ==
  /\ attempts["r1"].mode = "workflow" /\ attempts["r1"].useSkills
  /\ attempts["r1"].validation = "invalid"
  /\ ResultCode("r1") = "VALIDATION_ERROR"
  /\ attempts["r1"].validated # None
  /\ \E i \in 1..Len(The(attempts["r1"].validated).nodes) :
       The(attempts["r1"].validated).nodes[i].data.skillPath = "/proj/s1"

\* The catalogue entries with exactly the name and the scope of the node.
MatchingSkills(node, availableSkills) ==
  {k \in 1..Len(availableSkills) :
     availableSkills[k].name = node.data.name /\ availableSkills[k].scope = node.data.scope}

\* The first of them in catalogue order.
FirstMatchingSkill(node, availableSkills) ==
  availableSkills[CHOOSE k \in MatchingSkills(node, availableSkills) :
                    \A m \in MatchingSkills(node, availableSkills) : k <= m]

\* C23: every skill node whose (name, scope) exactly matches a catalogue
\* entry comes back stamped with the resolved path of a matching entry and
\* with validation status valid.
C23_FoundIsStampedValid ==
  call.result # None =>
    \A i \in 1..Len(call.workflow.nodes) :
      LET node == call.workflow.nodes[i]
          resolved == The(call.result).nodes[i]
      IN  (node.type = "skill" /\ MatchingSkills(node, call.availableSkills) # {}) =>
            /\ \E k \in MatchingSkills(node, call.availableSkills) :
                 resolved.data.skillPath = call.availableSkills[k].skillPath
            /\ resolved.data.validationStatus = "valid"

\* C23 as amended: every skill node whose (name, scope) exactly matches a
\* catalogue entry comes back stamped with the resolved path and with the
\* validation status of the first such entry of the catalogue, the rest of
\* the node being as it was.
C23_FoundIsStampedFromEntry ==
  call.result # None =>
    \A i \in 1..Len(call.workflow.nodes) :
      LET node == call.workflow.nodes[i]
          resolved == The(call.result).nodes[i]
      IN  (node.type = "skill" /\ MatchingSkills(node, call.availableSkills) # {}) =>
            LET entry == FirstMatchingSkill(node, call.availableSkills)
            IN  /\ resolved.data.skillPath = entry.skillPath
                /\ resolved.data.validationStatus = entry.validationStatus
                /\ resolved.id = node.id /\ resolved.type = node.type
                /\ resolved.data.name = node.data.name
                /\ resolved.data.scope = node.data.scope

\* C23 witness: a skill node that came with a path of its own matched the
\* second entry of the catalogue, whose status is missing, and was stamped
\* with the path and the status of that entry.
C23_Witness ==
  /\ call.fn = "resolveSkillPaths" /\ call.result # None
  /\ Len(call.availableSkills) = 2
  /\ call.availableSkills[1].scope = "personal"
  /\ \E i \in 1..Len(call.workflow.nodes) :
       /\ call.workflow.nodes[i].type = "skill"
       /\ call.workflow.nodes[i].data.skillPath = "/old"
       /\ The(call.result).nodes[i].data.skillPath = "/gone/s1"
       /\ The(call.result).nodes[i].data.validationStatus = "missing"

\* C24: a skill node with no catalogue entry of exactly its (name, scope)
\* keeps its path and gets the status missing, the call returning a result;
\* every node that is not a skill node comes back unchanged; and the result
\* has as many nodes as the input, with the same ids and types at the same
\* places, and the same connections and id as the input.
C24_MissingDegradesOneNode ==
  call.result # None =>
    LET given == call.workflow
        result == The(call.result)
    IN  /\ Len(result.nodes) = Len(given.nodes)
        /\ result.id = given.id /\ result.connections = given.connections
        /\ \A i \in 1..Len(given.nodes) :
             LET node == given.nodes[i]
                 resolved == result.nodes[i]
             IN  /\ resolved.id = node.id /\ resolved.type = node.type
                 /\ node.type # "skill" => resolved = node
                 /\ (node.type = "skill" /\ MatchingSkills(node, call.availableSkills) = {}) =>
                      /\ resolved.data.skillPath = node.data.skillPath
                      /\ resolved.data.validationStatus = "missing"
                      /\ resolved.data.name = node.data.name
                      /\ resolved.data.scope = node.data.scope

\* C24 witness: with a catalogue that is not empty, a skill node that no
\* entry matches kept its path /old2 and was stamped missing, and the prompt
\* node next to it, whose payload looks like a skill's, came back unchanged.
C24_Witness ==
  /\ call.fn = "resolveSkillPaths" /\ call.result # None
  /\ call.availableSkills # <<>>
  /\ \E i, j \in 1..Len(call.workflow.nodes) :
       /\ call.workflow.nodes[i].type = "skill"
       /\ MatchingSkills(call.workflow.nodes[i], call.availableSkills) = {}
       /\ call.workflow.nodes[i].data.validationStatus = "valid"
       /\ The(call.result).nodes[i].data.skillPath = "/old2"
       /\ The(call.result).nodes[i].data.validationStatus = "missing"
       /\ call.workflow.nodes[j].type = "prompt"
       /\ The(call.result).nodes[j] = call.workflow.nodes[j]

\* The text that is left of s from position i on when every fenced JSON
\* block is taken out: a block runs from a ```json to the next ```, and when
\* that ``` is the start of another ```json the letters json stay behind.
RECURSIVE OutsideBlocks(_, _)
OutsideBlocks(s, i) ==
  IF i > Len(s) THEN <<>>
  ELSE IF s[i] = "[" /\ \E j \in (i + 1)..Len(s) : IsFence(s[j])
       THEN LET close == CHOOSE j \in (i + 1)..Len(s) :
                           IsFence(s[j]) /\ \A k \in (i + 1)..(j - 1) : ~IsFence(s[k])
            IN  (IF s[close] = "[" THEN <<"t">> ELSE <<>>) \o OutsideBlocks(s, close + 1)
       ELSE <<s[i]>> \o OutsideBlocks(s, i + 1)

WorkflowTexts == {<<"Jwf">>, <<"Jwc">>, FencedInside, FencedInsideWithPhrase}

\* The output consists of one fenced JSON block that holds that text.
IsSoleFencedBlock(output, text) ==
  \E before, after \in {<<>>, <<"n">>} : output = <<"[">> \o before \o text \o after \o <<"]">>

\* C26: an output that consists solely of one fenced JSON block holding an
\* object with the required fields is not classified as a clarification,
\* whatever text the block contains, parses to the value of the enclosed
\* object, and comes back from refineWorkflow as a workflow.
C26_SoleFencedJsonIsWorkflow ==
  call.result # None =>
    \A text \in WorkflowTexts :
      IsSoleFencedBlock(call.output, text) =>
        /\ ~The(call.result).isClarification
        /\ The(call.result).parsed = JsonParseText(text)
        /\ The(call.result).refined["workflow"].refinedWorkflow # None

\* ------------------------------------------------------------------------
\* Claims about the diff engine
\* ------------------------------------------------------------------------
\* The result of the call of computeWorkflowDiff, once it has returned.
DiffReturned == call.fn = "computeWorkflowDiff" /\ call.result # None

DiffResult == The(call.result)

\* The ids of the entries of a change list, as a set.
IdsOf(entries) == {entries[i].id : i \in 1..Len(entries)}

\* The edge is the connection: same ends, same ports, a port that is absent
\* on one side absent on the other.
EdgeIsConnection(edge, conn) ==
  /\ edge.source = conn.from /\ edge.sourceHandle = conn.fromPort
  /\ edge.target = conn.to /\ edge.targetHandle = conn.toPort

\* The proposed workflow is the baseline: same name, same nodes, same
\* connections.
ProposedIsBaseline ==
  /\ call.currentName = call.incomingWorkflow.name
  /\ call.currentNodes = call.incomingWorkflow.nodes
  /\ Len(call.currentEdges) = Len(call.incomingWorkflow.connections)
  /\ \A i \in 1..Len(call.currentEdges) :
       EdgeIsConnection(call.currentEdges[i], call.incomingWorkflow.connections[i])

\* C27: when the proposed workflow is identical to the baseline (same name,
\* same nodes, same connections), computeWorkflowDiff returns totalChanges 0,
\* empty addedNodes, removedNodes and modifiedNodes, and 0 added and 0
\* removed connections.
C27_IdenticalHasNoChanges ==
  (DiffReturned /\ ProposedIsBaseline) =>
    /\ DiffResult.totalChanges = 0
    /\ DiffResult.addedNodes = <<>>
    /\ DiffResult.removedNodes = <<>>
    /\ DiffResult.modifiedNodes = <<>>
    /\ DiffResult.addedConnections = 0
    /\ DiffResult.removedConnections = 0

\* The node ids of the baseline and of the proposed workflow.
BaselineIds == {call.currentNodes[i].id : i \in 1..Len(call.currentNodes)}

ProposedIds ==
  {call.incomingWorkflow.nodes[i].id : i \in 1..Len(call.incomingWorkflow.nodes)}

\* The number of entries of a change list with that id.
TimesIn(entries, id) == Cardinality({i \in 1..Len(entries) : entries[i].id = id})

\* C28: every node id of the proposed workflow that the baseline does not
\* have is in addedNodes exactly once and in neither removedNodes nor
\* modifiedNodes; the ids of addedNodes, removedNodes and modifiedNodes are
\* pairwise disjoint and none of the three lists holds an id twice.
C28_ChangeListsDisjoint ==
  DiffReturned =>
    LET added == DiffResult.addedNodes
        removed == DiffResult.removedNodes
        modified == DiffResult.modifiedNodes
    IN  /\ \A id \in ProposedIds \ BaselineIds :
             /\ TimesIn(added, id) = 1
             /\ id \notin IdsOf(removed) \cup IdsOf(modified)
        /\ IdsOf(added) \cap IdsOf(removed) = {}
        /\ IdsOf(added) \cap IdsOf(modified) = {}
        /\ IdsOf(removed) \cap IdsOf(modified) = {}
        /\ \A id \in IdsOf(added) : TimesIn(added, id) = 1
        /\ \A id \in IdsOf(removed) : TimesIn(removed, id) = 1
        /\ \A id \in IdsOf(modified) : TimesIn(modified, id) = 1

\* A call that has added a node, removed another and modified a third, the
\* baseline holding the removed node twice.
C28_Witness ==
  /\ DiffReturned
  /\ IdsOf(DiffResult.addedNodes) = {"b"}
  /\ IdsOf(DiffResult.modifiedNodes) = {"a"}
  /\ IdsOf(DiffResult.removedNodes) = {"s"}
  /\ TimesIn(call.currentNodes, "s") = 2

\* The proposed workflow is the baseline under another name: same nodes, same
\* connections.
PureRename ==
  /\ call.currentName # call.incomingWorkflow.name
  /\ call.currentNodes = call.incomingWorkflow.nodes
  /\ Len(call.currentEdges) = Len(call.incomingWorkflow.connections)
  /\ \A i \in 1..Len(call.currentEdges) :
       EdgeIsConnection(call.currentEdges[i], call.incomingWorkflow.connections[i])

\* The part of C29 about the sum: totalChanges is 1 for a differing name
\* plus the lengths of the three node lists plus the two connection counts.
TotalIsSum ==
  DiffResult.totalChanges =
    (IF call.currentName # call.incomingWorkflow.name THEN 1 ELSE 0)
      + Len(DiffResult.addedNodes) + Len(DiffResult.removedNodes)
      + Len(DiffResult.modifiedNodes)
      + DiffResult.addedConnections + DiffResult.removedConnections

\* The part of C29 about nameChange: {from, to} exactly when the names
\* differ, null otherwise.
NameChangeIffDiffers ==
  DiffResult.nameChange =
    IF call.currentName # call.incomingWorkflow.name
    THEN Some([from |-> call.currentName, to |-> call.incomingWorkflow.name])
    ELSE None

\* C29: totalChanges is (1 if the names differ, else 0) + |addedNodes| +
\* |removedNodes| + |modifiedNodes| + addedConnections + removedConnections;
\* nameChange is {from: baseline name, to: proposed name} exactly when the
\* names differ and null otherwise; a pure rename yields totalChanges = 1.
C29_TotalIsSumAndRenameIsOne ==
  DiffReturned =>
    /\ TotalIsSum
    /\ NameChangeIffDiffers
    /\ PureRename => DiffResult.totalChanges = 1

\* C30: isNewWorkflow is true exactly when the baseline has at most 2 nodes,
\* every baseline node is of type start or end, and the baseline has no
\* connection, whatever the proposed workflow is; a baseline of exactly
\* [start, end] without connections reports true.
C30_NewIffDefaultCanvas ==
  DiffReturned =>
    /\ DiffResult.isNewWorkflow =
         (/\ Len(call.currentNodes) <= 2
          /\ {call.currentNodes[i].type : i \in 1..Len(call.currentNodes)}
               \subseteq {"start", "end"}
          /\ call.currentEdges = <<>>)
    /\ ( /\ Len(call.currentNodes) = 2
         /\ call.currentNodes[1].type = "start" /\ call.currentNodes[2].type = "end"
         /\ call.currentEdges = <<>> ) => DiffResult.isNewWorkflow

\* A call with a baseline of [start, end] and no connections and a proposed
\* workflow that has nodes and a connection, reported as new.
C30_Witness ==
  /\ DiffReturned
  /\ Len(call.currentNodes) = 2
  /\ call.currentNodes[1].type = "start" /\ call.currentNodes[2].type = "end"
  /\ call.currentEdges = <<>>
  /\ Len(call.incomingWorkflow.nodes) = 2
  /\ call.incomingWorkflow.connections # <<>>
  /\ DiffResult.isNewWorkflow

\* The key of a connection as the specification defines it: source id, source
\* port, target id, target port, an absent port taken as the empty string.
PortOrEmpty(port) == IF port = None THEN "" ELSE The(port)

BaselineConnectionKeys ==
  { <<call.currentEdges[i].source, PortOrEmpty(call.currentEdges[i].sourceHandle),
      call.currentEdges[i].target, PortOrEmpty(call.currentEdges[i].targetHandle)>> :
    i \in 1..Len(call.currentEdges) }

ProposedConnectionKeys ==
  { <<call.incomingWorkflow.connections[i].from,
      PortOrEmpty(call.incomingWorkflow.connections[i].fromPort),
      call.incomingWorkflow.connections[i].to,
      PortOrEmpty(call.incomingWorkflow.connections[i].toPort)>> :
    i \in 1..Len(call.incomingWorkflow.connections) }

\* C31: addedConnections is the number of distinct connection keys of the
\* proposed workflow that the baseline does not have, removedConnections the
\* number of those of the baseline that the proposed workflow does not have,
\* the key being (source id, source port, target id, target port) with an
\* absent port on either side read as the empty string.
C31_ConnectionCountsByKey ==
  DiffReturned =>
    /\ DiffResult.addedConnections
         = Cardinality(ProposedConnectionKeys \ BaselineConnectionKeys)
    /\ DiffResult.removedConnections
         = Cardinality(BaselineConnectionKeys \ ProposedConnectionKeys)

\* The content of a data payload: its fields with their values, whatever the
\* order in which they were set.
ContentOf(data) == {data[i] : i \in 1..Len(data)}

\* C32: a node whose id is in the baseline and in the proposed workflow is in
\* modifiedNodes exactly when its two data payloads differ in content; two
\* payloads with the same fields and the same values are not reported as
\* modified.
C32_ModifiedIffContentDiffers ==
  DiffReturned =>
    \A id \in BaselineIds \cap ProposedIds :
      (id \in IdsOf(DiffResult.modifiedNodes))
        <=> ( ContentOf(MapGet(call.currentNodes, id).data)
                # ContentOf(MapGet(call.incomingWorkflow.nodes, id).data) )

\* What a node is to a reader of the graph: its id, type, position and the
\* content of its data.
NodeView(node) ==
  [id |-> node.id, type |-> node.type, position |-> node.position,
   content |-> ContentOf(node.data)]

\* The nodes of a list, one per id (of two nodes with the same id the later
\* one stands).
NodeViews(nodes) ==
  {NodeView(MapGet(nodes, id)) : id \in {nodes[i].id : i \in 1..Len(nodes)}}

\* C33: when computeWorkflowDiff returns totalChanges = 0, the proposed
\* workflow and the baseline have the same name, the same nodes (id, type,
\* position and data) and the same connections.
C33_ZeroChangesMeansNoDifference ==
  (DiffReturned /\ DiffResult.totalChanges = 0) =>
    /\ call.currentName = call.incomingWorkflow.name
    /\ NodeViews(call.currentNodes) = NodeViews(call.incomingWorkflow.nodes)
    /\ BaselineConnectionKeys = ProposedConnectionKeys

\* ------------------------------------------------------------------------
\* Claims about the orchestrators, the runner and the panel (continued)
\* ------------------------------------------------------------------------
\* Attempt a returned a workflow or a fragment.
ReturnedGraph(a) == ResultIsSuccess(a) /\ The(attempts[a].result).refinedWorkflow # None

\* The nodes attempt a returned, and the nodes it parsed.
ReturnedNodes(a) == The(The(attempts[a].result).refinedWorkflow).nodes

ParsedNodes(a) == The(ParsedValue(a).nodes).items

\* C34 as claimed: skill references are resolved in workflow mode only; in
\* nestedFlow mode the orchestrator returns the nodes of the parsed fragment
\* with their skill references as parsed, whatever the use-skills flag is.
C34_NestedFlowNeverResolves ==
  \A a \in Attempts :
    (attempts[a].mode = "subAgentFlow" /\ ReturnedGraph(a)) =>
      ReturnedNodes(a) = ParsedNodes(a)

\* C34 as amended: skill references are resolved only when the use-skills
\* flag is set, in workflow mode and in nestedFlow mode alike: with the flag
\* off the returned nodes are the parsed ones in both modes, with the flag on
\* the fragment of nestedFlow mode is returned with its references resolved
\* against the catalogue.
C34_ResolvesExactlyWithSkillsFlag ==
  \A a \in Attempts :
    ReturnedGraph(a) =>
      /\ ~attempts[a].useSkills => ReturnedNodes(a) = ParsedNodes(a)
      /\ (attempts[a].useSkills /\ attempts[a].mode = "subAgentFlow") =>
           \A i \in 1..Len(ParsedNodes(a)) :
             LET node == ParsedNodes(a)[i]
                 hits == MatchingSkills(node, attempts[a].availableSkills)
             IN  /\ Len(ReturnedNodes(a)) = Len(ParsedNodes(a))
                 /\ (node.type = "skill" /\ hits # {}) =>
                      ReturnedNodes(a)[i].data.skillPath
                        = FirstMatchingSkill(node, attempts[a].availableSkills).skillPath
                 /\ (node.type = "skill" /\ hits = {}) =>
                      ReturnedNodes(a)[i].data.validationStatus = "missing"
                 /\ node.type # "skill" => ReturnedNodes(a)[i] = node

\* A fragment with a skill reference returned by refineSubAgentFlow with the
\* reference rewritten.
C34_Witness ==
  \E a \in Attempts :
    /\ attempts[a].mode = "subAgentFlow" /\ attempts[a].useSkills /\ ReturnedGraph(a)
    /\ \E i \in 1..Len(ParsedNodes(a)) :
         /\ ParsedNodes(a)[i].type = "skill"
         /\ ReturnedNodes(a)[i] # ParsedNodes(a)[i]

\* C35: with several attempts alive under distinct correlation ids, a step of
\* one attempt (its cancel, timeout, exit or error) leaves the registry entry
\* of every other attempt as it is and delivers no signal to another
\* attempt's subprocess, which keeps running.
C35_OtherAttemptsUntouched ==
  [][ \A a, b \in Attempts :
        (a # b /\ attempts'[a] # attempts[a]) =>
          /\ activeProcesses'[b] = activeProcesses[b]
          /\ attempts'[b].sigs = attempts[b].sigs
          /\ attempts'[b].proc = attempts[b].proc ]_vars

\* The first attempt was cancelled and its subprocess, signalled, has not
\* exited yet, while the second attempt is registered and its subprocess runs.
C35_Witness ==
  /\ attempts["r1"].cancelled
  /\ attempts["r1"].proc = "running" /\ attempts["r1"].sigs # {}
  /\ activeProcesses["r1"] = None
  /\ activeProcesses["r2"] # None /\ The(activeProcesses["r2"]).process = "r2"
  /\ attempts["r2"].proc = "running" /\ attempts["r2"].sigs = {}

\* The place of the first message with that id.
PlaceOf(messages, messageId) ==
  CHOOSE i \in 1..Len(messages) :
    messages[i].id = messageId /\ \A j \in 1..(i - 1) : messages[j].id # messageId

\* A user message comes immediately before the message at that place.
UserMessageBefore(messages, i) == i > 1 /\ messages[i - 1].sender = "user"

\* This step is a retry that makes a request.
RetryStarts ==
  /\ panel.pending = None /\ panel'.pending # None
  /\ The(panel'.pending).kind = "retry"

\* What the retry that starts in this step sends, and what it does to the
\* conversation.
RetryResubmits ==
  LET request == The(panel'.pending)
      before  == panel.conversationHistory.messages
      after   == panel'.conversationHistory.messages
      i       == PlaceOf(before, request.aiMessageId)
  IN  /\ UserMessageBefore(before, i)
      /\ request.message = before[i - 1].content
      /\ attempts[request.requestId].stage = "idle"
      /\ attempts'[request.requestId].stage = "loading"
      /\ attempts'[request.requestId].mode = panel.mode
      /\ panel'.mode = panel.mode
      /\ Len(after) = Len(before)
      /\ \A j \in 1..Len(before) :
           /\ after[j].sender = before[j].sender
           /\ j # i => after[j] = before[j]

\* The settling of a request starts no other request.
SettlingStartsNothing ==
  (panel.pending # None /\ panel'.pending # panel.pending) =>
    (panel'.pending = None /\ attempts' = attempts)

\* A retry of a message that no user message immediately precedes does
\* nothing.
RetryWithoutUserMessageIsNoOp ==
  \A i \in 1..Len(panel.conversationHistory.messages) :
    LET messages == panel.conversationHistory.messages
        place == PlaceOf(messages, messages[i].id)
    IN  ~UserMessageBefore(messages, place) => handleRetry(panel, messages[i].id, "r1") = panel

\* C36: nothing is retried without the user; a retry sends the content of the
\* user message that comes immediately before the failed assistant message,
\* under a fresh correlation id and in the mode of the panel, and appends no
\* user message; a retry of a message that no user message immediately
\* precedes does nothing.
C36_RetryResubmitsPrecedingUserMessage ==
  /\ [][SettlingStartsNothing /\ (RetryStarts => RetryResubmits)]_vars
  /\ []RetryWithoutUserMessageIsNoOp

\* C36 witness: the retry of the failed assistant message of a panel in
\* subAgentFlow mode is in flight, made with the content of the user message
\* before it, and the conversation still has its two messages.
C36_Witness ==
  /\ panel.mode = "subAgentFlow"
  /\ panel.pending # None /\ The(panel.pending).kind = "retry"
  /\ The(panel.pending).message = "m0" /\ The(panel.pending).aiMessageId = "air0"
  /\ attempts["r1"].stage = "executing" /\ attempts["r1"].mode = "subAgentFlow"
  /\ Len(panel.conversationHistory.messages) = 2

\* C37: an output that is, as a whole, a raw (unfenced) JSON object with the
\* required fields of a workflow comes back from refineWorkflow as a
\* workflow, whatever text its node payloads contain: it is not classified
\* as a clarification.
C37_RawJsonIsNeverClarification ==
  (call.fn = "classify" /\ call.result # None) =>
    \A text \in WorkflowTexts :
      Trim(call.output) = text =>
        /\ ~The(call.result).isClarification
        /\ The(call.result).refined["workflow"].clarificationMessage = None
        /\ The(call.result).refined["workflow"].refinedWorkflow # None

\* The call of executeClaudeCodeCLI of attempt a has been made.
CliCalled(a) == attempts[a].proc # "none"

\* C38: every call of executeClaudeCodeCLI eventually resolves, whether the
\* subprocess never exits, ignores termination signals or fails to spawn,
\* and whether or not the attempt is cancelled, the timeout timer firing
\* eventually unless it was cleared.
C38_EveryCallResolves ==
  \A a \in Attempts : CliCalled(a) ~> (attempts[a].cli # None)

\* C38 witness: the call of a cancelled attempt whose subprocess ignores
\* SIGTERM and is still running has resolved.
C38_Witness ==
  /\ attempts["r1"].cancelled /\ attempts["r1"].ignoresTerm
  /\ attempts["r1"].proc = "running"
  /\ attempts["r1"].cli # None

\* This step is the settling of the awaited refinement call: the handler has
\* run on from its await and recorded how the call ended.
CallSettles == panel.pending # None /\ panel'.lastOutcome # panel.lastOutcome

\* C39: every send or retry that put the panel into the processing state
\* takes it out of that state when the refinement call settles, whether with
\* a success, a clarification, an error of any kind, a cancellation or a
\* result of any other type.
C39_SettlingEndsProcessing ==
  [][CallSettles => (~panel'.isProcessing /\ panel'.pending = None)]_vars

\* ------------------------------------------------------------------------
\* Claims about Run for Antigravity
\* ------------------------------------------------------------------------
\* The handler got as far as the call of startAntigravityTask.
ReachedStart(env) ==
  /\ env.nonStandardSkills => env.normalize = "ok"
  /\ env.existingSkill = "none" \/ (env.existingSkill = "exists" /\ env.answer = "Overwrite")
  /\ env.export = "ok"
  /\ env.installed

\* C40: handleRunForAntigravity posts RUN_FOR_ANTIGRAVITY_SUCCESS with
\* antigravityOpened: true only if startAntigravityTask was called and
\* reported success; when the task could not be started it posts a failure
\* response instead.
C40_SuccessOnlyIfTaskStarted ==
  (call.fn = "handleRunForAntigravity" /\ call.result # None) =>
    LET posted == The(call.result).posted
        success == \E i \in 1..Len(posted) :
                     /\ posted[i].type = "RUN_FOR_ANTIGRAVITY_SUCCESS"
                     /\ posted[i].antigravityOpened
        task == The(call.result).task
        started == task.how = "returns" /\ task.value
    IN  /\ success => (ReachedStart(call.env) /\ started)
        /\ (ReachedStart(call.env) /\ ~started) =>
             posted = <<Posted("RUN_FOR_ANTIGRAVITY_FAILED", "UNKNOWN_ERROR", FALSE)>>

====
